---- MODULE Spec2Model ----
(***************************************************************************)
(* Model of kalico_flash's flash orchestration:                            *)
(*   kflash/service.py   klipper_service_stopped, _stop_klipper,           *)
(*                       _start_klipper                                    *)
(*   kflash/flasher.py   flash_device, _try_katapult_flash,                *)
(*                       _try_make_flash                                   *)
(*   kflash/tui.py       wait_for_device                                   *)
(*   kflash/flash.py     cmd_flash (from the resolved device on, line 704) *)
(*                       cmd_flash_all (from the build stage on)           *)
(* and of the functions around it, each under a specification of its own: *)
(*   SpecProbe    kflash/flasher.py   check_katapult                       *)
(*   SpecWait     kflash/tui.py       wait_for_device over named devices   *)
(*   SpecResolve  kflash/flash.py     cmd_flash, the discovery phase;      *)
(*                kflash/discovery.py find_registered_devices              *)
(*   SpecBatch    kflash/flash.py     cmd_flash_all, stage 4               *)
(*   SpecAdd      kflash/flash.py     cmd_add_device, from the selected    *)
(*                                    device on                            *)
(* The program is single-threaded; pc is the position of the one thread.   *)
(* External commands (systemctl, flashtool.py, make) and the serial        *)
(* directory are the environment: their outcomes are chosen with \E.       *)
(***************************************************************************)
EXTENDS Integers, Sequences, FiniteSets, TLC

\* ------------------------------------------------------------------ bounds
MaxDevices == 2   \* flashable devices in the registry (cmd_flash_all)
MaxPolls == 2     \* scans of wait_for_device before its timeout elapses

\* ------------------------------------------------------------- the state
VARIABLES
    cmd,              \* "flash" (cmd_flash) or "flash_all" (cmd_flash_all)
    pc,               \* position of the thread
    allow_fallback,   \* global_config.allow_flash_fallback
    flashtool_exists, \* <katapult_dir>/scripts/flashtool.py is on disk
    python3_ok,       \* python3 is in PATH
    n_devices,        \* len(flash_list)
    results,          \* cmd_flash_all: BatchDeviceResult per device
    idx,              \* cmd_flash_all: devices of built_results handled so far
    preferred_method, \* flash_device's preferred_method argument
    methods,          \* flash_device: methods
    mi,               \* flash_device: position of the for loop in methods
    result,           \* flash_device: result of the current attempt
    last_result,      \* flash_device: last_result
    flash_result,     \* caller: flash_result
    polls,            \* wait_for_device: scans done
    verified,         \* caller: verified
    error_reason,     \* caller: error_reason
    device_path_new,  \* caller: device_path_new
    exc,              \* exception in flight ("none" when there is none)
    ret,              \* the command's return value ("none" until it returns)
    raised,           \* exception that left the command
    \* history of what the program did (not program state)
    events,           \* external commands and calls, in order
    fd_attempts,      \* this flash_device call: methods whose _try_* was called
    fd_tools,         \* this flash_device call: tool launches [method, outcome]
    fd_results,       \* this flash_device call: results the _try_* returned
    stop_outcome,     \* outcome of the stop command
    start_outcome,    \* outcome of the start command
    body_outcome,     \* how the guarded body ended
    guard_out,        \* exception that left the with-block
    \* check_katapult (flasher.py:215-349)
    ck,               \* position of the thread inside check_katapult
    device_path,      \* argument device_path (the filename under by-id)
    serial_pattern,   \* argument serial_pattern
    serial_hex,       \* serial_hex
    ck_found,         \* found (<< >> is None)
    ck_recovered,     \* recovered (<< >> is None)
    scans,            \* _poll_for_serial_device: listings done by this poll
    check_result,     \* the KatapultCheckResult returned
    ck_log,           \* history: tool runs and polls of this call, in order
    ck_checks,        \* history: the checks passed before the first tool run
    \* wait_for_device with filenames and a clock (tui.py:896-953)
    wf,               \* position of the thread inside wait_for_device
    timeout,          \* argument timeout, in clock ticks
    interval,         \* argument interval, in clock ticks
    elapsed,          \* time.monotonic() - start at the last loop test
    overrun,          \* ticks the last turn took beyond interval
    dir_before,       \* the serial directory before change_at
    dir_after,        \* the serial directory from change_at on
    change_at,        \* tick (since start) at which the directory changes
    wait_result,      \* the tuple returned (<< >> until then)
    listings,         \* history: what each scan of this call listed
    \* device resolution (discovery.py:77-104, flash.py:459-704, 1185-1214)
    func,             \* the function under way
    sel,              \* position of the thread inside it
    registry,         \* data.devices: the entries, in key order
    usb_devices,      \* usb_devices
    explicit,         \* cmd_flash: the command line named a device
    device_key,       \* cmd_flash: device_key (0 is None)
    usb_device,       \* usb_device (<< >> is None)
    duplicate_matches, \* cmd_flash: keys of duplicate_matches
    blocked_entries,  \* cmd_flash: keys of blocked_entries
    matched,          \* matched
    unmatched,        \* find_registered_devices: unmatched_devices
    exit_code,        \* the command's return value ("none" until it returns)
    dup_listed,       \* history: keys whose duplicates were printed
    flashed,          \* history: what the flash was started against
    fa_pos,           \* cmd_flash_all: entries of the registry gone through
    \* cmd_add_device (flash.py:1512-1815); it shares func, sel, registry,
    \* usb_devices (its devices) and exit_code with the resolution above
    selected,         \* selected.filename
    existing_entry,   \* key of existing_entry (0 is None)
    gen_pattern,      \* serial_pattern (<< >> until generated)
    pattern_matches,  \* pattern_matches
    entry_variants    \* history: what _prefix_variants returned, per entry

flashVars == << cmd, pc, allow_fallback, flashtool_exists, python3_ok, n_devices,
           results, idx, preferred_method, methods, mi, result, last_result,
           flash_result, polls, verified, error_reason, device_path_new, exc,
           ret, raised, events, fd_attempts, fd_tools, fd_results, stop_outcome,
           start_outcome, body_outcome, guard_out >>

probeVars == << ck, device_path, serial_pattern, serial_hex, ck_found, ck_recovered,
                scans, check_result, ck_log, ck_checks >>

waitVars == << wf, timeout, interval, elapsed, overrun, dir_before, dir_after,
               change_at, wait_result, listings >>

resolveVars == << func, sel, registry, usb_devices, explicit, device_key, usb_device,
                  duplicate_matches, blocked_entries, matched, unmatched,
                  exit_code, dup_listed, flashed, fa_pos >>

addVars == << selected, existing_entry, gen_pattern, pattern_matches,
              entry_variants >>

vars == << flashVars, probeVars, waitVars, resolveVars, addVars >>

\* what cmd_flash and cmd_flash_all never write
cfgVars == << cmd, allow_fallback, flashtool_exists, python3_ok, n_devices,
             probeVars, waitVars, resolveVars, addVars >>
fdVars == << preferred_method, methods, mi, result, last_result, fd_attempts,
             fd_tools, fd_results >>
guardVars == << stop_outcome, start_outcome, body_outcome, guard_out >>
callerVars == << flash_result, verified, error_reason, device_path_new >>

\* ------------------------------------------------------------ method text
(* A method string as far as flash_device looks at it: the word it spells   *)
(* once stripped and lower-cased (core), whether it carries surrounding     *)
(* whitespace (ws) or upper-case letters (upper), and None (none).          *)
Str(core, ws, upper) == [core |-> core, ws |-> ws, upper |-> upper, none |-> FALSE]
Lit(s) == Str(s, FALSE, FALSE)
NoneMethod == [core |-> "", ws |-> FALSE, upper |-> FALSE, none |-> TRUE]

\* the values a registry file can hold for flash_method
MethodInputs ==
    { NoneMethod, Lit(""), Str("", TRUE, FALSE),
      Lit("katapult"), Lit("make_flash"), Lit("dfu"),
      Str("katapult", TRUE, TRUE), Str("make_flash", FALSE, TRUE) }

\* Python truthiness of an Optional[str]
Truthy(m) == ~m.none /\ ~(m.core = "" /\ ~m.ws)
\* a or b
Or(a, b) == IF Truthy(a) THEN a ELSE b
\* str.strip(), str.lower()
Strip(m) == [m EXCEPT !.ws = FALSE]
Lower(m) == [m EXCEPT !.upper = FALSE]

KnownMethods == { Lit("katapult"), Lit("make_flash") }

\* flasher.py:382  method = (preferred_method or "katapult").strip().lower()
NormalizeMethod(pm) == Lower(Strip(Or(pm, Lit("katapult"))))

\* flash.py:239-242
ResolveFlashMethod(entry_method, default_method) ==
    Lower(Strip(Or(entry_method, Or(default_method, Lit("katapult")))))

\* flash.py:1202
FlashAllMethod(entry_method, default_method) ==
    Or(entry_method, Or(default_method, Lit("katapult")))

\* flasher.py:393
OtherMethod(m) == IF m = "katapult" THEN "make_flash" ELSE "katapult"

\* flasher.py:391-393
BuildMethods(m, fallback) ==
    IF fallback THEN << m, OtherMethod(m) >> ELSE << m >>

\* ---------------------------------------------------------------- results
FlashResult(success, method, error) ==
    [success |-> success, method |-> method, error |-> error]
NoResult == FlashResult(FALSE, "", "<None>")

BatchDeviceResult(build_ok) ==
    [build_ok |-> build_ok, flash_ok |-> FALSE, verify_ok |-> FALSE]

Count(e) == Cardinality({ i \in 1..Len(events) : events[i] = e })
Log(e) == events' = Append(events, e)

\* the devices of built_results, as indices into results
Built == { i \in 1..Len(results) : results[i].build_ok }
RECURSIVE NthBuilt(_, _)
NthBuilt(k, from) ==
    IF from \in Built
    THEN IF k = 1 THEN from ELSE NthBuilt(k - 1, from + 1)
    ELSE NthBuilt(k, from + 1)

\* ------------------------------------------------------------------- Init
\* absent values
None == "<None>"
NoCheckResult == [has_katapult |-> "<pending>", error_message |-> None]

\* no call of check_katapult is under way
ProbeLocalsIdle ==
    /\ ck = "idle"
    /\ device_path = << >>
    /\ serial_hex = << >>
    /\ ck_found = << >>
    /\ ck_recovered = << >>
    /\ scans = 0
    /\ check_result = NoCheckResult
    /\ ck_log = << >>
    /\ ck_checks = << >>

ProbeIdle == ProbeLocalsIdle /\ serial_pattern = << >>

\* no call of wait_for_device(serial_pattern, timeout, interval) is under way
WaitIdle ==
    /\ wf = "idle"
    /\ timeout = 0
    /\ interval = 0
    /\ elapsed = 0
    /\ overrun = 0
    /\ dir_before = {}
    /\ dir_after = {}
    /\ change_at = 0
    /\ wait_result = << >>
    /\ listings = << >>

\* the locals and the history of the device resolution, at the start
ResolveLocalsInit ==
    /\ usb_device = << >>
    /\ duplicate_matches = {}
    /\ blocked_entries = {}
    /\ matched = << >>
    /\ unmatched = << >>
    /\ exit_code = "none"
    /\ dup_listed = {}
    /\ flashed = << >>
    /\ fa_pos = 0

\* the locals and the history of cmd_add_device, at the start
AddLocalsInit ==
    /\ existing_entry = 0
    /\ gen_pattern = << >>
    /\ pattern_matches = << >>
    /\ entry_variants = << >>

\* no cmd_add_device is under way
AddIdle ==
    /\ selected = << >>
    /\ AddLocalsInit

\* no device resolution is under way
ResolveIdle ==
    /\ func = "none"
    /\ sel = "idle"
    /\ registry = << >>
    /\ usb_devices = << >>
    /\ explicit = FALSE
    /\ device_key = 0
    /\ ResolveLocalsInit

\* the locals of cmd_flash and cmd_flash_all, and the history, at the start
FlashLocalsInit ==
    /\ results = << >>
    /\ idx = 0
    /\ preferred_method = NoneMethod
    /\ methods = << >>
    /\ mi = 0
    /\ result = NoResult
    /\ last_result = NoResult
    /\ flash_result = NoResult
    /\ polls = 0
    /\ verified = FALSE
    /\ error_reason = "<None>"
    /\ device_path_new = "<None>"
    /\ exc = "none"
    /\ ret = "none"
    /\ raised = "none"
    /\ events = << >>
    /\ fd_attempts = << >>
    /\ fd_tools = << >>
    /\ fd_results = << >>
    /\ stop_outcome = "none"
    /\ start_outcome = "none"
    /\ body_outcome = "none"
    /\ guard_out = "none"

Init ==
    /\ cmd \in {"flash", "flash_all"}
    /\ pc = IF cmd = "flash" THEN "cf_resolve" ELSE "fa_build"
    /\ allow_fallback \in BOOLEAN
    /\ flashtool_exists \in BOOLEAN
    /\ python3_ok \in BOOLEAN
    /\ n_devices \in 1..MaxDevices
    /\ (cmd = "flash" => n_devices = 1)
    /\ FlashLocalsInit
    /\ ProbeIdle
    /\ WaitIdle
    /\ ResolveIdle
    /\ AddIdle

\* neither cmd_flash nor cmd_flash_all is running
FlashIdle ==
    /\ cmd = "flash"
    /\ pc = "done"
    /\ allow_fallback = FALSE
    /\ flashtool_exists = FALSE
    /\ python3_ok = FALSE
    /\ n_devices = 1
    /\ FlashLocalsInit

\* the command returns v
Return(v) ==
    /\ pc' = "done"
    /\ ret' = v


\* -------------------------------------------------------- cmd_flash, lead-in
\* flash.py:193-236  _preflight_flash (build_env_ok: _preflight_build passed)
PreflightFlash(pm, fallback, build_env_ok) ==
    LET method == NormalizeMethod(pm)
        ms == IF method \in KnownMethods
              THEN BuildMethods(method.core, fallback) ELSE << >>
        katapult_only == method.core = "katapult" /\ ~fallback
    IN  /\ build_env_ok
        /\ method \in KnownMethods
        /\ (\E i \in 1..Len(ms) : ms[i] = "katapult")
              => ~(katapult_only /\ (~flashtool_exists \/ ~python3_ok))

\* flash.py:704-720  the method is resolved and the preflight runs
CmdFlashResolve ==
    /\ pc = "cf_resolve"
    /\ \E entry_method \in MethodInputs, default_method \in MethodInputs,
          build_env_ok \in BOOLEAN :
          LET pm == ResolveFlashMethod(entry_method, default_method) IN
          /\ preferred_method' = pm
          /\ IF PreflightFlash(pm, allow_fallback, build_env_ok)
             THEN pc' = "cf_safety" /\ ret' = ret
             ELSE Return("1")
    /\ UNCHANGED << cfgVars, results, idx, methods, mi, result, last_result,
                    callerVars, polls, exc, raised, events, fd_attempts,
                    fd_tools, fd_results, guardVars >>

\* fault: a paused print does not block
PrintActive_PausedAllowed(status) == status = "printing"

\* flash.py:730, 1172  print_status.state in ("printing", "paused")
PrintActive(status) == status \in {"printing", "paused"}

\* the snapshot of get_print_status, for the history: a state of an active
\* print is recorded, any other state is not
Snapshot(status) ==
    IF status \in {"printing", "paused"} THEN << status >> ELSE << >>

\* flash.py:722-747  Moonraker safety check
CmdFlashSafety ==
    /\ pc = "cf_safety"
    /\ \E status \in {"unreachable", "printing", "paused", "standby"},
          confirmed \in BOOLEAN :
          /\ events' = events \o Snapshot(status)
          /\ CASE status = "unreachable" /\ ~confirmed -> Return("0")
               [] status # "unreachable" /\ PrintActive(status) -> Return("1")
               [] OTHER -> pc' = "cf_config" /\ ret' = ret
    /\ UNCHANGED << cfgVars, results, idx, fdVars, callerVars, polls, exc,
                    raised, guardVars >>

\* flash.py:749-874  version display, menuconfig, config cache, MCU validation
CmdFlashConfig ==
    /\ pc = "cf_config"
    /\ \E outcome \in {"continue", "cancelled", "error"} :
          CASE outcome = "cancelled" -> Return("0")
            [] outcome = "error" -> Return("1")
            [] OTHER -> pc' = "cf_build" /\ ret' = ret
    /\ UNCHANGED << cfgVars, results, idx, fdVars, callerVars, polls, exc,
                    raised, events, guardVars >>

\* flash.py:876-895  run_build
CmdFlashBuild ==
    /\ pc = "cf_build"
    /\ \E build_ok \in BOOLEAN :
          IF build_ok THEN pc' = "cf_verify_path" /\ ret' = ret
          ELSE Return("1")
    /\ UNCHANGED << cfgVars, results, idx, fdVars, callerVars, polls, exc,
                    raised, events, guardVars >>

\* fault: the device path is not looked at
DevicePathVerified_Unchecked(path_exists) == TRUE

\* flasher.py:35-47  verify_device_path raises DiscoveryError unless the
\* path exists
DevicePathVerified(path_exists) == path_exists

\* flash.py:897-915  verify_device_path, verify_passwordless_sudo
CmdFlashVerifyPath ==
    /\ pc = "cf_verify_path"
    /\ \E path_exists \in BOOLEAN :
          /\ events' = IF path_exists THEN events
                       ELSE Append(events, "path_missing")
          /\ IF DevicePathVerified(path_exists)
             THEN pc' = "guard_stop" /\ ret' = ret
             ELSE Return("1")
    /\ UNCHANGED << cfgVars, results, idx, fdVars, callerVars, polls, exc,
                    raised, guardVars >>

\* ---------------------------------------------------- cmd_flash_all, lead-in
\* flash.py:1133-1165  stage 3: every device of flash_list is built
FlashAllBuild ==
    /\ pc = "fa_build"
    /\ \E built \in [1..n_devices -> BOOLEAN] :
          /\ results' = [i \in 1..n_devices |-> BatchDeviceResult(built[i])]
          /\ IF \E i \in 1..n_devices : built[i]
             THEN pc' = "fa_safety" /\ ret' = ret
             ELSE Return("1")
    /\ UNCHANGED << cfgVars, idx, fdVars, callerVars, polls, exc, raised,
                    events, guardVars >>

\* flash.py:1167-1183  print status check, verify_passwordless_sudo
FlashAllSafety ==
    /\ pc = "fa_safety"
    /\ \E status \in {"unreachable", "printing", "paused", "standby"} :
          /\ events' = events \o Snapshot(status)
          /\ IF status # "unreachable" /\ PrintActive(status)
             THEN Return("1")
             ELSE pc' = "guard_stop" /\ ret' = ret
    /\ UNCHANGED << cfgVars, results, idx, fdVars, callerVars, polls, exc,
                    raised, guardVars >>

\* ----------------------------------------------------------- service guard
\* outcomes of a subprocess.run of systemctl: exit code 0, exit code # 0,
\* TimeoutExpired, OSError on launch, KeyboardInterrupt while it runs
RunOutcomes == {"ok", "nonzero", "timeout", "oserror", "interrupt"}

\* fault: a timed-out stop is swallowed instead of raised
StopKlipperRaises_TimeoutSwallowed(o) ==
    CASE o \in {"ok", "timeout"} -> "none"
      [] o = "nonzero" -> "ServiceError"
      [] o = "oserror" -> "OSError"
      [] OTHER -> "KeyboardInterrupt"

\* fault: the exit code of the stop command is not looked at
StopKlipperRaises_ExitCodeIgnored(o) ==
    CASE o \in {"ok", "nonzero"} -> "none"
      [] o = "timeout" -> "ServiceError"
      [] o = "oserror" -> "OSError"
      [] OTHER -> "KeyboardInterrupt"

\* service.py:35-67  the exception _stop_klipper leaves with ("none": returns)
StopKlipperRaises(o) ==
    CASE o = "ok" -> "none"
      [] o \in {"nonzero", "timeout"} -> "ServiceError"
      [] o = "oserror" -> "OSError"
      [] OTHER -> "KeyboardInterrupt"

\* fault: the stop is inside the try, so its failure runs the finally clause
AfterFailedStop_InsideTry == "guard_exit"

\* service.py:166-167  _stop_klipper is called before the try statement: an
\* exception it raises leaves the guard at once
AfterFailedStop == "propagate"

\* service.py:166-168  entry of klipper_service_stopped: stop, then yield
StopKlipper ==
    /\ pc = "guard_stop"
    /\ \E o \in RunOutcomes :
          /\ stop_outcome' = o
          /\ exc' = StopKlipperRaises(o)
          /\ IF StopKlipperRaises(o) = "none"
             THEN /\ events' = events \o << "stop", "body_enter" >>
                  /\ pc' = IF cmd = "flash" THEN "cf_body" ELSE "fa_scan"
             ELSE /\ Log("stop")
                  /\ pc' = AfterFailedStop
    /\ UNCHANGED << cfgVars, results, idx, fdVars, callerVars, polls, ret,
                    raised, start_outcome, body_outcome, guard_out >>

\* fault: a failed start is raised instead of reported
StartKlipperRaises_OnFailure(o) ==
    CASE o = "ok" -> "none"
      [] o = "interrupt" -> "KeyboardInterrupt"
      [] OTHER -> "ServiceError"

\* service.py:70-138  the exception _start_klipper leaves with
StartKlipperRaises(o) ==
    IF o = "interrupt" THEN "KeyboardInterrupt" ELSE "none"

\* service.py:169-172  exit of klipper_service_stopped: the finally clause.
\* The body has ended (normally, or with exc in flight); start is issued and
\* the exception in flight, if any, goes on.
StartKlipper ==
    /\ pc = "guard_exit"
    /\ \E o \in RunOutcomes :
          LET out_exc == IF StartKlipperRaises(o) # "none"
                         THEN StartKlipperRaises(o) ELSE exc
          IN  /\ start_outcome' = o
              /\ Log("start")
              /\ exc' = out_exc
              /\ guard_out' = out_exc
              /\ pc' = IF out_exc # "none" THEN "propagate"
                       ELSE IF cmd = "flash" THEN "cf_summary"
                       ELSE "fa_summary"
    /\ UNCHANGED << cfgVars, results, idx, fdVars, callerVars, polls, ret,
                    raised, stop_outcome, body_outcome >>

\* the guarded body ends: control reaches the finally clause
EndBody(how) ==
    /\ pc' = "guard_exit"
    /\ body_outcome' = how

\* fault: the yield is not inside try/finally, so an exception in the body
\* leaves the guard without the start
RaiseInBody_NoFinally(e) ==
    /\ exc' = e
    /\ pc' = "propagate"
    /\ body_outcome' = e

\* an exception is raised inside the guarded body
RaiseInBody(e) ==
    /\ exc' = e
    /\ pc' = "guard_exit"
    /\ body_outcome' = e


\* ------------------------------------------------------------ flash_device
\* where flash_device returns to
AfterFlashPc == IF cmd = "flash" THEN "cf_after_flash" ELSE "fa_after_flash"

\* a call of flash_device(preferred_method = pm, ...) starts
CallFlashDevice(pm) ==
    /\ pc' = "fd_entry"
    /\ preferred_method' = pm
    /\ methods' = << >>
    /\ mi' = 0
    /\ result' = NoResult
    /\ last_result' = NoResult
    /\ fd_attempts' = << >>
    /\ fd_tools' = << >>
    /\ fd_results' = << >>

\* fault: the method is not validated
MethodAccepted_Any(method) == TRUE

\* flasher.py:383  the methods flash_device accepts
MethodAccepted(method) == method \in KnownMethods

\* flasher.py:380-395  validation of the method, the ordered attempt list
FlashDeviceEntry ==
    /\ pc = "fd_entry"
    /\ LET method == NormalizeMethod(preferred_method) IN
       IF ~MethodAccepted(method)
       THEN /\ flash_result' = FlashResult(FALSE, method.core, "Unknown flash method")
            /\ pc' = AfterFlashPc
            /\ UNCHANGED << methods, mi >>
       ELSE /\ methods' = BuildMethods(method.core, allow_fallback)
            /\ mi' = 1
            /\ pc' = "fd_loop"
            /\ UNCHANGED flash_result
    /\ UNCHANGED << cfgVars, results, idx, preferred_method, result,
                    last_result, fd_attempts, fd_tools, fd_results, polls,
                    verified, error_reason, device_path_new, exc, ret, raised,
                    events, guardVars >>

\* flasher.py:397-400  which _try_* the loop body calls for `current`
UsesKatapult(current) == current = "katapult"

\* the attempt's subprocess.run could not launch the tool: OSError leaves
\* _try_*, flash_device and the guarded body
LaunchFails(m) ==
    /\ fd_tools' = Append(fd_tools, [method |-> m, outcome |-> "oserror"])
    /\ Log("tool_oserror")
    /\ RaiseInBody("OSError")
    /\ UNCHANGED result

Launched(m) ==
    /\ fd_tools' = Append(fd_tools, [method |-> m, outcome |-> "running"])
    /\ Log("tool_begin")
    /\ pc' = "tool_running"
    /\ UNCHANGED << result, exc, body_outcome >>

\* flasher.py:67-86  _try_katapult_flash up to the launch of flashtool.py
TryKatapultFlash ==
    /\ pc = "fd_loop"
    /\ UsesKatapult(methods[mi])
    /\ fd_attempts' = Append(fd_attempts, "katapult")
    /\ IF ~flashtool_exists
       THEN /\ result' = FlashResult(FALSE, "katapult", "Katapult flashtool not found")
            /\ pc' = "fd_after"
            /\ UNCHANGED << fd_tools, events, exc, body_outcome >>
       ELSE \E launch_ok \in BOOLEAN :
               /\ (~python3_ok => ~launch_ok)
               /\ IF launch_ok THEN Launched("katapult")
                  ELSE LaunchFails("katapult")
    /\ UNCHANGED << cfgVars, results, idx, preferred_method, methods, mi,
                    last_result, fd_results, callerVars, polls, ret, raised,
                    stop_outcome, start_outcome, guard_out >>

\* flasher.py:127-137  _try_make_flash up to the launch of make
TryMakeFlash ==
    /\ pc = "fd_loop"
    /\ ~UsesKatapult(methods[mi])
    /\ fd_attempts' = Append(fd_attempts, "make_flash")
    /\ \E launch_ok \in BOOLEAN :
          IF launch_ok THEN Launched("make_flash")
          ELSE LaunchFails("make_flash")
    /\ UNCHANGED << cfgVars, results, idx, preferred_method, methods, mi,
                    last_result, fd_results, callerVars, polls, ret, raised,
                    stop_outcome, start_outcome, guard_out >>

\* outcomes of a launched transfer tool: exit code 0, exit code # 0,
\* TimeoutExpired, KeyboardInterrupt while it runs
ToolOutcomes == {"ok", "nonzero", "timeout", "interrupt"}

\* fault: the exit code of flashtool.py is not looked at
KatapultResult_ExitCodeIgnored(o) ==
    CASE o \in {"ok", "nonzero"} -> FlashResult(TRUE, "katapult", "<None>")
      [] OTHER -> FlashResult(FALSE, "katapult", "Flash timeout")

\* flasher.py:87-109  the FlashResult _try_katapult_flash builds
KatapultResult(o) ==
    CASE o = "ok" -> FlashResult(TRUE, "katapult", "<None>")
      [] o = "nonzero" -> FlashResult(FALSE, "katapult", "tool output")
      [] OTHER -> FlashResult(FALSE, "katapult", "Flash timeout")

\* flasher.py:138-160  the FlashResult _try_make_flash builds
MakeFlashResult(o) ==
    CASE o = "ok" -> FlashResult(TRUE, "make_flash", "<None>")
      [] o = "nonzero" -> FlashResult(FALSE, "make_flash", "tool output")
      [] OTHER -> FlashResult(FALSE, "make_flash", "Flash timeout")

\* the running tool ends with outcome o; r is the result _try_* builds
ToolEnds(o, r) ==
    /\ fd_tools' = [fd_tools EXCEPT ![Len(fd_tools)].outcome = o]
    /\ Log("tool_end")
    /\ IF o = "interrupt"
       THEN RaiseInBody("KeyboardInterrupt") /\ UNCHANGED result
       ELSE /\ result' = r
            /\ pc' = "fd_after"
            /\ UNCHANGED << exc, body_outcome >>

\* flasher.py:81-109  flashtool.py ends
KatapultFlashEnds ==
    /\ pc = "tool_running"
    /\ UsesKatapult(methods[mi])
    /\ \E o \in ToolOutcomes : ToolEnds(o, KatapultResult(o))
    /\ UNCHANGED << cfgVars, results, idx, preferred_method, methods, mi,
                    last_result, fd_attempts, fd_results, callerVars, polls,
                    ret, raised, stop_outcome, start_outcome, guard_out >>

\* flasher.py:131-160  make flash ends
MakeFlashEnds ==
    /\ pc = "tool_running"
    /\ ~UsesKatapult(methods[mi])
    /\ \E o \in ToolOutcomes : ToolEnds(o, MakeFlashResult(o))
    /\ UNCHANGED << cfgVars, results, idx, preferred_method, methods, mi,
                    last_result, fd_attempts, fd_results, callerVars, polls,
                    ret, raised, stop_outcome, start_outcome, guard_out >>

\* fault: the fallback flag is read the wrong way round
LoopStops_FlagInverted(r, fallback, current, ms) ==
    r.success \/ fallback \/ current = ms[Len(ms)]

\* flasher.py:403-408  the loop stops after this attempt
LoopStops(r, fallback, current, ms) ==
    r.success \/ ~fallback \/ current = ms[Len(ms)]

\* flasher.py:402-424  after an attempt: return, break or go on
FlashDeviceAfter ==
    /\ pc = "fd_after"
    /\ last_result' = result
    /\ fd_results' = Append(fd_results, result)
    /\ IF LoopStops(result, allow_fallback, methods[mi], methods)
       THEN /\ flash_result' = result
            /\ pc' = AfterFlashPc
            /\ UNCHANGED mi
       ELSE /\ mi' = mi + 1
            /\ pc' = "fd_loop"
            /\ UNCHANGED flash_result
    /\ UNCHANGED << cfgVars, results, idx, preferred_method, methods, result,
                    fd_attempts, fd_tools, polls, verified, error_reason,
                    device_path_new, exc, ret, raised, events, guardVars >>


\* --------------------------------------------------------- wait_for_device
\* where wait_for_device returns to
AfterVerifyPc == IF cmd = "flash" THEN "cf_after_verify" ELSE "fa_after_verify"

\* a call of wait_for_device starts
CallWaitForDevice ==
    /\ pc' = "wfd"
    /\ polls' = 0

\* fault: a device in bootloader mode counts as verified
ClassifyDevice_KatapultVerified(prefix) ==
    CASE prefix \in {"klipper", "katapult"} -> << TRUE, "path", "<None>" >>
      [] OTHER -> << FALSE, "path", "Unexpected device prefix" >>

\* tui.py:933-947  the tuple returned for the first matching device, by the
\* prefix of its filename
ClassifyDevice(prefix) ==
    CASE prefix = "klipper" -> << TRUE, "path", "<None>" >>
      [] prefix = "katapult" -> << FALSE, "path", "Device in bootloader mode (katapult)" >>
      [] OTHER -> << FALSE, "path", "Unexpected device prefix" >>

\* wait_for_device returns t to its caller
VerifyReturns(t) ==
    /\ verified' = t[1]
    /\ device_path_new' = t[2]
    /\ error_reason' = t[3]
    /\ Log("verify_end")
    /\ pc' = AfterVerifyPc
    /\ UNCHANGED << polls, exc, body_outcome >>

\* tui.py:921-949  one turn of the loop: scan, classify a match, or sleep
WaitForDevicePoll ==
    /\ pc = "wfd"
    /\ polls < MaxPolls
    /\ \E seen \in {"klipper", "katapult", "other", "nomatch"},
          interrupted \in BOOLEAN :
          IF seen # "nomatch"
          THEN ~interrupted /\ VerifyReturns(ClassifyDevice(seen))
          ELSE IF interrupted
               THEN /\ Log("verify_abort")
                    /\ RaiseInBody("KeyboardInterrupt")
                    /\ UNCHANGED << polls, verified, error_reason, device_path_new >>
               ELSE /\ polls' = polls + 1
                    /\ UNCHANGED << pc, verified, error_reason, device_path_new,
                                    events, exc, body_outcome >>
    /\ UNCHANGED << cfgVars, results, idx, fdVars, flash_result, ret, raised,
                    stop_outcome, start_outcome, guard_out >>

\* tui.py:921, 951-953  the timeout has elapsed
WaitForDeviceTimeout ==
    /\ pc = "wfd"
    /\ polls = MaxPolls
    /\ VerifyReturns(<< FALSE, "<None>", "Timeout waiting for device" >>)
    /\ UNCHANGED << cfgVars, results, idx, fdVars, flash_result, ret, raised,
                    stop_outcome, start_outcome, guard_out >>

\* ----------------------------------------------------- cmd_flash, the body
\* flash.py:918-933  the with-block is entered, flash_device is called
CmdFlashBody ==
    /\ pc = "cf_body"
    /\ CallFlashDevice(preferred_method)
    /\ UNCHANGED << cfgVars, results, idx, callerVars, polls, exc, ret,
                    raised, events, guardVars >>

\* what flash_device reported to its caller, for the history
Reported(fr) == IF fr.success THEN "flash_ok" ELSE "flash_fail"

\* fault: the poll is run whatever flash_device reported
VerifyWanted_Always(fr) == TRUE

\* flash.py:935  whether the verification poll is run
VerifyWanted(fr) == fr.success

\* flash.py:935-946  the poll after a success, none after a failure
CmdFlashAfterFlash ==
    /\ pc = "cf_after_flash"
    /\ IF VerifyWanted(flash_result)
       THEN /\ CallWaitForDevice
            /\ events' = events \o << Reported(flash_result), "verify_begin" >>
            /\ UNCHANGED << verified, error_reason, device_path_new,
                            body_outcome >>
       ELSE /\ verified' = FALSE
            /\ device_path_new' = "<None>"
            /\ error_reason' = flash_result.error
            /\ Log(Reported(flash_result))
            /\ EndBody("normal")
            /\ UNCHANGED polls
    /\ UNCHANGED << cfgVars, results, idx, fdVars, flash_result, exc, ret,
                    raised, stop_outcome, start_outcome, guard_out >>

\* flash.py:938-942  wait_for_device has returned: the with-block ends
CmdFlashAfterVerify ==
    /\ pc = "cf_after_verify"
    /\ EndBody("normal")
    /\ UNCHANGED << cfgVars, results, idx, fdVars, callerVars, polls, exc,
                    ret, raised, events, stop_outcome, start_outcome,
                    guard_out >>

\* fault: a bare except, which also catches KeyboardInterrupt
CaughtByExceptException_Bare(e) == TRUE

\* flash.py:950  the exceptions `except Exception` catches
CaughtByExceptException(e) == e \in {"ServiceError", "OSError"}

\* flash.py:917, 950-958  an exception leaves the with statement
CmdFlashExcept ==
    /\ pc = "propagate"
    /\ cmd = "flash"
    /\ IF CaughtByExceptException(exc)
       THEN Return("1") /\ exc' = "none" /\ UNCHANGED raised
       ELSE pc' = "done" /\ raised' = exc /\ UNCHANGED << ret, exc >>
    /\ UNCHANGED << cfgVars, results, idx, fdVars, callerVars, polls, events,
                    guardVars >>

\* fault: the verification does not count
CmdFlashExitCode_TransferOnly(fr, ok) == IF fr.success THEN "0" ELSE "1"

\* flash.py:963-998  the exit code of cmd_flash
CmdFlashExitCode(fr, ok) == IF fr.success /\ ok THEN "0" ELSE "1"

\* flash.py:948-998  after the with statement: the summary
CmdFlashSummary ==
    /\ pc = "cf_summary"
    /\ Return(CmdFlashExitCode(flash_result, verified))
    /\ UNCHANGED << cfgVars, results, idx, fdVars, callerVars, polls, exc,
                    raised, events, guardVars >>

\* ------------------------------------------------- cmd_flash_all, the body
\* the device of results the loop is at
Cur == NthBuilt(idx, 1)

\* flash.py:1185-1187  the with-block is entered, the devices are scanned
FlashAllScan ==
    /\ pc = "fa_scan"
    /\ pc' = "fa_loop"
    /\ Log("scan")
    /\ UNCHANGED << cfgVars, results, idx, fdVars, callerVars, polls, exc,
                    ret, raised, guardVars >>

\* fault: no delay between devices
StaggerDelay_Never(flash_idx) == << >>

\* flash.py:1190-1191  time.sleep(stagger_delay) before every turn of the loop
\* but the first
StaggerDelay(flash_idx) == IF flash_idx > 0 THEN << "stagger" >> ELSE << >>

\* flash.py:1189-1214  next device: stagger delay, match, flash_device
FlashAllNext ==
    /\ pc = "fa_loop"
    /\ idx < Cardinality(Built)
    /\ \E interrupted \in BOOLEAN, found \in BOOLEAN,
          entry_method \in MethodInputs, default_method \in MethodInputs :
          /\ (idx = 0 => ~interrupted)
          /\ IF interrupted
             THEN /\ RaiseInBody("KeyboardInterrupt")
                  /\ UNCHANGED << idx, fdVars, events >>
             ELSE /\ idx' = idx + 1
                  /\ UNCHANGED << exc, body_outcome >>
                  /\ IF ~found
                     THEN /\ events' = events \o StaggerDelay(idx) \o << "not_found" >>
                          /\ UNCHANGED << pc, fdVars >>
                     ELSE /\ CallFlashDevice(FlashAllMethod(entry_method, default_method))
                          /\ events' = events \o StaggerDelay(idx) \o << "flash_device" >>
    /\ UNCHANGED << cfgVars, results, callerVars, polls, ret, raised,
                    stop_outcome, start_outcome, guard_out >>

\* flash.py:1216-1233  the poll after a success, none after a failure
FlashAllAfterFlash ==
    /\ pc = "fa_after_flash"
    /\ IF VerifyWanted(flash_result)
       THEN /\ results' = [results EXCEPT ![Cur].flash_ok = TRUE]
            /\ CallWaitForDevice
            /\ events' = events \o << Reported(flash_result), "verify_begin" >>
       ELSE /\ pc' = "fa_loop"
            /\ Log(Reported(flash_result))
            /\ UNCHANGED << results, polls >>
    /\ UNCHANGED << cfgVars, idx, fdVars, callerVars, exc, ret, raised,
                    guardVars >>

\* flash.py:1219-1230  wait_for_device has returned: record, scan again
FlashAllAfterVerify ==
    /\ pc = "fa_after_verify"
    /\ results' = [results EXCEPT ![Cur].verify_ok = verified]
    /\ Log("scan")
    /\ pc' = "fa_loop"
    /\ UNCHANGED << cfgVars, idx, fdVars, callerVars, polls, exc, ret, raised,
                    guardVars >>

\* flash.py:1189  the loop is over: the with-block ends
FlashAllLoopEnd ==
    /\ pc = "fa_loop"
    /\ idx = Cardinality(Built)
    /\ EndBody("normal")
    /\ UNCHANGED << cfgVars, results, idx, fdVars, callerVars, polls, exc,
                    ret, raised, events, stop_outcome, start_outcome,
                    guard_out >>

\* flash.py:1138, 1237-1239  no except clause: the finally clause removes the
\* temporary directory and every exception leaves cmd_flash_all
FlashAllFinally ==
    /\ pc = "propagate"
    /\ cmd = "flash_all"
    /\ pc' = "done"
    /\ raised' = exc
    /\ UNCHANGED << cfgVars, results, idx, fdVars, callerVars, polls, exc,
                    ret, events, guardVars >>

\* flash.py:1246-1269  the exit code of cmd_flash_all
FlashAllExitCode(rs) ==
    IF \A i \in 1..Len(rs) : rs[i].build_ok /\ rs[i].flash_ok /\ rs[i].verify_ok
    THEN "0" ELSE "1"

\* flash.py:1235-1269  after the with statement: the summary
FlashAllSummary ==
    /\ pc = "fa_summary"
    /\ Return(FlashAllExitCode(results))
    /\ UNCHANGED << cfgVars, results, idx, fdVars, callerVars, polls, exc,
                    raised, events, guardVars >>

\* ------------------------------------------------------- the specification
Next ==
    \/ CmdFlashResolve
    \/ CmdFlashSafety
    \/ CmdFlashConfig
    \/ CmdFlashBuild
    \/ CmdFlashVerifyPath
    \/ FlashAllBuild
    \/ FlashAllSafety
    \/ StopKlipper
    \/ StartKlipper
    \/ CmdFlashBody
    \/ FlashDeviceEntry
    \/ TryKatapultFlash
    \/ TryMakeFlash
    \/ KatapultFlashEnds
    \/ MakeFlashEnds
    \/ FlashDeviceAfter
    \/ CmdFlashAfterFlash
    \/ WaitForDevicePoll
    \/ WaitForDeviceTimeout
    \/ CmdFlashAfterVerify
    \/ CmdFlashExcept
    \/ CmdFlashSummary
    \/ FlashAllScan
    \/ FlashAllNext
    \/ FlashAllAfterFlash
    \/ FlashAllAfterVerify
    \/ FlashAllLoopEnd
    \/ FlashAllFinally
    \/ FlashAllSummary

Spec == Init /\ [][Next]_vars


\* ============================================================ device names
(* A filename of /dev/serial/by-id and a glob pattern are sequences of      *)
(* tokens. A token is a run of characters that the code below never splits: *)
(* the bus tag, a prefix word, the underscore, the MCU word, one character  *)
(* of the serial number, the interface tag, and the wildcard.               *)
KlipperA1 == << "usb-", "Klipper", "_", "stm32", "_", "A", "1", "-if", "0", "0" >>
KatapultA1 == << "usb-", "katapult", "_", "stm32", "_", "A", "1", "-if", "0", "0" >>
KlipperA12 == << "usb-", "Klipper", "_", "stm32", "_", "A", "1", "2", "-if", "0", "0" >>
BeaconA1 == << "usb-", "Beacon", "_", "Beacon", "_", "A", "1", "-if", "0", "0" >>

\* the names a serial directory can hold, in the order of sorted()
\* ("B" < "K" < "k", and "-" < "2")
SortedNames == << BeaconA1, KlipperA1, KlipperA12, KatapultA1 >>
Names == { SortedNames[i] : i \in 1..Len(SortedNames) }

\* more names, for cmd_add_device: one without the interface suffix and one
\* whose descriptor spells the prefix in lower case
KlipperA1Bare == << "usb-", "Klipper", "_", "stm32", "_", "A", "1" >>
LowerKlipperA1 == << "usb-", "klipper", "_", "stm32", "_", "A", "1", "-if", "0", "0" >>

\* all the names, in the order of sorted() ("" < "-", "a" < "l")
SortedFilenames == << BeaconA1, KlipperA1Bare, KlipperA1, KlipperA12,
                      KatapultA1, LowerKlipperA1 >>
Filenames == { SortedFilenames[i] : i \in 1..Len(SortedFilenames) }

Digits == { "0", "1", "2" }
HexDigits == Digits \cup { "A", "a" }
AlnumTokens == HexDigits \cup { "stm32", "Klipper", "klipper", "katapult",
                                "Beacon", "beacon" }

\* str.lower(), token by token
LowerToken(t) ==
    CASE t = "Klipper" -> "klipper"
      [] t = "Beacon" -> "beacon"
      [] t = "A" -> "a"
      [] OTHER -> t
LowerName(s) == [i \in 1..Len(s) |-> LowerToken(s[i])]

\* str.startswith()
StartsWith(s, p) == Len(p) <= Len(s) /\ SubSeq(s, 1, Len(p)) = p

\* fnmatch.fnmatch(name, pat) on POSIX: case-sensitive, "*" matches any run
RECURSIVE FnMatch(_, _)
FnMatch(name, pat) ==
    IF pat = << >> THEN name = << >>
    ELSE IF Head(pat) = "*"
         THEN FnMatch(name, Tail(pat))
              \/ (name # << >> /\ FnMatch(Tail(name), pat))
         ELSE /\ name # << >>
              /\ Head(name) = Head(pat)
              /\ FnMatch(Tail(name), Tail(pat))

\* fault: the suffix is cut off and no wildcard is appended
generate_serial_pattern_NoWildcard(filename) ==
    IF \E k \in 1..Len(filename) : filename[k] = "-if"
    THEN SubSeq(filename, 1, (CHOOSE k \in 1..Len(filename) : filename[k] = "-if") - 1)
    ELSE filename

\* discovery.py:130-142  generate_serial_pattern:
\* re.sub(r"-if\d+$", "", filename) + "*"
IfSuffixAt(filename) ==
    { k \in 1..Len(filename) - 1 :
        /\ filename[k] = "-if"
        /\ \A j \in k + 1..Len(filename) : filename[j] \in Digits }
generate_serial_pattern(filename) ==
    LET base == IF IfSuffixAt(filename) = {} THEN filename
                ELSE SubSeq(filename, 1, (CHOOSE k \in IfSuffixAt(filename) : TRUE) - 1)
    IN  base \o << "*" >>

\* the patterns a registry holds: each was generated from a name (flash.py:1733)
Patterns == { generate_serial_pattern(n) : n \in Names }

\* fault: no variant for the other mode
prefix_variants_Single(pattern) == << pattern >>

\* discovery.py:46-60  _prefix_variants
KlipperPrefixLower == << "usb-", "klipper", "_" >>
KatapultPrefixLower == << "usb-", "katapult", "_" >>
KlipperPrefix == << "usb-", "Klipper", "_" >>
KatapultPrefix == << "usb-", "katapult", "_" >>
Rest(pattern) == SubSeq(pattern, 4, Len(pattern))
prefix_variants(pattern) ==
    IF StartsWith(LowerName(pattern), KlipperPrefixLower)
    THEN << pattern, KatapultPrefix \o Rest(pattern) >>
    ELSE IF StartsWith(LowerName(pattern), KatapultPrefixLower)
         THEN << pattern, KlipperPrefix \o Rest(pattern) >>
         ELSE << pattern >>

\* discovery.py:72-73 and 97  the filename matches one of the variants
MatchesAnyVariant(filename, pattern) ==
    \E i \in 1..Len(prefix_variants(pattern)) :
        FnMatch(filename, prefix_variants(pattern)[i])

\* discovery.py:18-31  scan_serial_devices: the directory's names, sorted
scan_serial_devices(dir) == SelectSeq(SortedFilenames, LAMBDA n : n \in dir)

\* fault: the matches are returned last first
match_devices_Reversed(pattern, devices) ==
    LET hits == SelectSeq(devices, LAMBDA d :
                    \E i \in 1..Len(prefix_variants(pattern)) :
                        FnMatch(d, prefix_variants(pattern)[i]))
    IN  [i \in 1..Len(hits) |-> hits[Len(hits) + 1 - i]]

\* discovery.py:63-74  match_devices
match_devices(pattern, devices) ==
    SelectSeq(devices, LAMBDA d : MatchesAnyVariant(d, pattern))

\* discovery.py:40-43  match_device (<< >> is None)
match_device(pattern, devices) ==
    IF match_devices(pattern, devices) = << >> THEN << >>
    ELSE match_devices(pattern, devices)[1]

\* the directories the environment can show: one board is never listed under
\* both of its mode prefixes at once
Dirs == { d \in SUBSET Names : ~(KlipperA1 \in d /\ KatapultA1 \in d) }


\* ========================================================== check_katapult
MaxListings == 2   \* listings of one _poll_for_serial_device before its deadline

\* flasher.py:237-240  re.search(r'usb-(?:Klipper|katapult)_[a-zA-Z0-9]+_
\* ([A-Fa-f0-9]+)', basename): group 1, or << >> when there is no match.
\* Every name starts with its only "usb-", so the search matches at the start.
McuEnd(s) == { k \in 5..Len(s) : \A j \in 4..k - 1 : s[j] \in AlnumTokens }
HexEnd(s, k) == { e \in k + 1..Len(s) : \A j \in k + 1..e : s[j] \in HexDigits }
Max(S) == CHOOSE x \in S : \A y \in S : y <= x
extract_serial_hex(s) ==
    LET ks == { k \in McuEnd(s) : s[k] = "_" /\ HexEnd(s, k) # {} } IN
    IF /\ Len(s) >= 6
       /\ s[1] = "usb-"
       /\ s[2] \in { "Klipper", "katapult" }
       /\ s[3] = "_"
       /\ ks # {}
    THEN LET k == Max(ks) IN SubSeq(s, k + 1, Max(HexEnd(s, k)))
    ELSE << >>

\* flasher.py:300  katapult_pattern = f"usb-katapult_*_{serial_hex}*"
katapult_pattern(hex) == << "usb-", "katapult", "_", "*", "_" >> \o hex \o << "*" >>

\* flasher.py:253, 262, 281-297, 319-323, 334, 342-349  a KatapultCheckResult
KatapultCheckResult(has_katapult, error_message) ==
    [has_katapult |-> has_katapult, error_message |-> error_message]

\* check_katapult returns r
CheckReturns(r) ==
    /\ check_result' = r
    /\ ck' = "done"

CkLog(op, outcome, seen) ==
    ck_log' = Append(ck_log, [op |-> op, outcome |-> outcome, seen |-> seen])

\* the caller hands over a device and the pattern of the entry it matched
InitProbe ==
    /\ FlashIdle
    /\ AddIdle
    /\ WaitIdle
    /\ ResolveIdle
    /\ ck = "extract"
    /\ device_path \in Names
    /\ serial_pattern \in Patterns
    /\ MatchesAnyVariant(device_path, serial_pattern)
    /\ serial_hex = << >>
    /\ ck_found = << >>
    /\ ck_recovered = << >>
    /\ scans = 0
    /\ check_result = NoCheckResult
    /\ ck_log = << >>
    /\ ck_checks = << >>

\* fault: the enter-bootloader command is run without flashtool.py on disk
CheckNext_ToolNotLookedFor(pos, passed) ==
    CASE pos = "flashtool" -> "enter"
      [] ~passed -> "done"
      [] pos = "extract" -> "resolve"
      [] OTHER -> "flashtool"

\* flasher.py:241-266  where the thread goes after one of the three checks:
\* to the next step, or out of check_katapult with the unknown state
CheckNext(pos, passed) ==
    CASE ~passed -> "done"
      [] pos = "extract" -> "resolve"
      [] pos = "resolve" -> "flashtool"
      [] OTHER -> "enter"

\* flasher.py:241-266  a check has been made
CheckDone(passed, name, error_message) ==
    /\ ck_checks' = IF passed THEN Append(ck_checks, name) ELSE ck_checks
    /\ IF CheckNext(ck, passed) = "done"
       THEN CheckReturns(KatapultCheckResult("None", error_message))
       ELSE ck' = CheckNext(ck, passed) /\ UNCHANGED check_result

\* flasher.py:236-247  the serial number is cut out of the device path
CkExtractSerial ==
    /\ ck = "extract"
    /\ serial_hex' = extract_serial_hex(device_path)
    /\ CheckDone(serial_hex' # << >>, "serial",
                 "Could not extract serial from device path")
    /\ UNCHANGED << flashVars, addVars, waitVars, resolveVars, device_path, serial_pattern, ck_found,
                    ck_recovered, scans, ck_log >>

\* flasher.py:249-257  _resolve_usb_sysfs_path
CkResolveSysfs ==
    /\ ck = "resolve"
    /\ \E resolved \in BOOLEAN :
          CheckDone(resolved, "sysfs", "Failed to resolve sysfs path")
    /\ UNCHANGED << flashVars, addVars, waitVars, resolveVars, device_path, serial_pattern, serial_hex,
                    ck_found, ck_recovered, scans, ck_log >>

\* flasher.py:259-266  flashtool.exists()
CkFlashtoolExists ==
    /\ ck = "flashtool"
    /\ \E exists \in BOOLEAN :
          CheckDone(exists, "flashtool", "Katapult flashtool not found")
    /\ UNCHANGED << flashVars, addVars, waitVars, resolveVars, device_path, serial_pattern, serial_hex,
                    ck_found, ck_recovered, scans, ck_log >>

\* outcomes of a subprocess.run inside check_katapult: exit code 0, exit
\* code # 0, TimeoutExpired, OSError on launch
ProbeRunOutcomes == { "ok", "nonzero", "timeout", "oserror" }


\* fault: the exit code of the enter-bootloader run is not looked at
EnterFailure_ExitCodeIgnored(o) ==
    CASE o \in { "ok", "nonzero" } -> ""
      [] o = "timeout" -> "flashtool.py -r timed out"
      [] OTHER -> "Failed to run flashtool.py"

\* flasher.py:272-297  what the enter-bootloader run makes check_katapult
\* return at once: nothing ("") when the tool exited with code 0
EnterFailure(o) ==
    CASE o = "ok" -> ""
      [] o = "nonzero" -> "flashtool.py -r failed"
      [] o = "timeout" -> "flashtool.py -r timed out"
      [] OTHER -> "Failed to run flashtool.py"

\* flasher.py:282  result.stderr.strip() or result.stdout.strip(): what the
\* tool printed, the empty string when it printed nothing
EnterMessages(o) ==
    IF o = "nonzero" THEN { EnterFailure(o), "" } ELSE { EnterFailure(o) }

\* flasher.py:268-297  python3 flashtool.py -r -d device_path
CkEnterBootloader ==
    /\ ck = "enter"
    /\ \E o \in ProbeRunOutcomes :
          /\ CkLog("enter", o, device_path)
          /\ IF EnterFailure(o) = ""
             THEN ck' = "poll_katapult" /\ UNCHANGED check_result
             ELSE \E error_message \in EnterMessages(o) :
                     CheckReturns(KatapultCheckResult("None", error_message))
    /\ scans' = 0
    /\ UNCHANGED << flashVars, addVars, waitVars, resolveVars, ck_checks, device_path, serial_pattern, serial_hex,
                    ck_found, ck_recovered >>

\* the three calls of _poll_for_serial_device (flasher.py:303, 319, 341)
PollSteps == { "poll_katapult", "poll_recovered", "poll_reset" }
PollPattern ==
    IF ck = "poll_katapult" THEN katapult_pattern(serial_hex) ELSE serial_pattern

\* flasher.py:320-323  the verdict once Katapult was seen
RecoveredVerdict(path) ==
    KatapultCheckResult("True",
        IF path # << >> THEN None ELSE "Device may still be in bootloader mode")

\* fault: a device that did not come back after the reset counts as absent
\* Katapult
ResetVerdict_AlwaysFalse(path) == KatapultCheckResult("False", None)

\* flasher.py:341-349  the verdict after the USB reset
ResetVerdict(path) ==
    IF path # << >>
    THEN KatapultCheckResult("False", None)
    ELSE KatapultCheckResult("None", "Device did not recover after USB reset")

\* _poll_for_serial_device returns path (<< >> is None) and check_katapult
\* goes on: flasher.py:303-305, 319-323, 341-349
PollReturns(path) ==
    /\ CkLog(ck, IF path # << >> THEN "found" ELSE "timeout", path)
    /\ scans' = 0
    /\ CASE ck = "poll_katapult" ->
              /\ ck_found' = path
              /\ ck' = IF path # << >> THEN "second" ELSE "reset_0"
              /\ UNCHANGED << ck_recovered, check_result >>
         [] ck = "poll_recovered" ->
              /\ ck_recovered' = path
              /\ CheckReturns(RecoveredVerdict(path))
              /\ UNCHANGED ck_found
         [] OTHER ->
              /\ ck_recovered' = path
              /\ CheckReturns(ResetVerdict(path))
              /\ UNCHANGED ck_found

\* flasher.py:204-211  one turn of the loop: os.listdir (in no particular
\* order), the first name that matches is returned, else sleep. A directory
\* that is missing (FileNotFoundError) reads as the empty listing.
PollForSerialDevice ==
    /\ ck \in PollSteps
    /\ scans < MaxListings
    /\ \E dir \in Dirs :
          LET hits == { name \in dir : FnMatch(name, PollPattern) } IN
          IF hits # {}
          THEN \E name \in hits : PollReturns(name)
          ELSE /\ scans' = scans + 1
               /\ UNCHANGED << ck, ck_found, ck_recovered, check_result, ck_log >>
    /\ UNCHANGED << flashVars, addVars, waitVars, resolveVars, ck_checks, device_path, serial_pattern, serial_hex >>

\* flasher.py:203, 212  the deadline has passed
PollDeadline ==
    /\ ck \in PollSteps
    /\ scans = MaxListings
    /\ PollReturns(<< >>)
    /\ UNCHANGED << flashVars, addVars, waitVars, resolveVars, ck_checks, device_path, serial_pattern, serial_hex >>

\* flasher.py:309-318  python3 flashtool.py -r -d found, best effort
CkSecondInvocation ==
    /\ ck = "second"
    /\ \E o \in ProbeRunOutcomes : CkLog("second", o, ck_found)
    /\ ck' = "poll_recovered"
    /\ scans' = 0
    /\ UNCHANGED << flashVars, addVars, waitVars, resolveVars, ck_checks, device_path, serial_pattern, serial_hex,
                    ck_found, ck_recovered, check_result >>

\* fault: the loop ends after the first write
ResetNext_OneWrite(pos, o) ==
    CASE o = "ok" -> "poll_reset"
      [] o = "timeout" -> "raised"
      [] OTHER -> "done"

\* flasher.py:180-194, 333-338  where the thread goes after a write of
\* _usb_sysfs_reset: the next write, the poll, out of check_katapult with
\* the exception, or the return of the unknown state
ResetNext(pos, o) ==
    CASE o = "ok" -> IF pos = "reset_0" THEN "reset_1" ELSE "poll_reset"
      [] o = "timeout" -> "raised"
      [] OTHER -> "done"

\* flasher.py:181-194  what a turn of the loop does: the write, and after a
\* '0' that exited with code 0, time.sleep(USB_RESET_SLEEP)
ResetRecords(pos, o) ==
    << [op |-> IF pos = "reset_0" THEN "tee0" ELSE "tee1", outcome |-> o,
        seen |-> << >>] >>
    \o (IF pos = "reset_0" /\ o = "ok"
        THEN << [op |-> "sleep", outcome |-> "ok", seen |-> << >>] >>
        ELSE << >>)

\* flasher.py:178-194, 331-338  _usb_sysfs_reset: sudo tee authorized, first
\* with '0' then with '1'. A non-zero exit raises DiscoveryError, which
\* check_katapult catches as it catches OSError; TimeoutExpired is neither.
CkUsbResetWrite ==
    /\ ck \in { "reset_0", "reset_1" }
    /\ \E o \in ProbeRunOutcomes :
          /\ ck_log' = ck_log \o ResetRecords(ck, o)
          /\ IF ResetNext(ck, o) = "done"
             THEN CheckReturns(KatapultCheckResult("None", "USB reset failed"))
             ELSE ck' = ResetNext(ck, o) /\ UNCHANGED check_result
    /\ scans' = 0
    /\ UNCHANGED << flashVars, addVars, waitVars, resolveVars, ck_checks, device_path, serial_pattern, serial_hex,
                    ck_found, ck_recovered >>

NextProbe ==
    \/ CkExtractSerial
    \/ CkResolveSysfs
    \/ CkFlashtoolExists
    \/ CkEnterBootloader
    \/ PollForSerialDevice
    \/ PollDeadline
    \/ CkSecondInvocation
    \/ CkUsbResetWrite

SpecProbe == InitProbe /\ [][NextProbe]_vars


\* ==================================== wait_for_device, names and the clock
MaxTimeout == 4    \* largest timeout argument, in ticks
MaxInterval == 2   \* largest interval argument, in ticks
MaxOverrun == 1    \* most ticks one scan and sleep take beyond interval

\* the serial directory at tick t after the call started
DirAt(t) == IF t >= change_at THEN dir_after ELSE dir_before

\* tui.py:929  the devices of a listing that fnmatch the pattern as it is
PlainMatches(devices, pattern) ==
    SelectSeq(devices, LAMBDA d : FnMatch(d, pattern))

\* tui.py:933-947  the prefix the filename is classified by
PrefixKind(filename) ==
    IF StartsWith(LowerName(filename), KlipperPrefixLower) THEN "klipper"
    ELSE IF StartsWith(LowerName(filename), KatapultPrefixLower) THEN "katapult"
    ELSE "other"

\* tui.py:933-947  the tuple returned for the matching device
ClassifyMatch(device) ==
    << ClassifyDevice(PrefixKind(device))[1], device,
       ClassifyDevice(PrefixKind(device))[3] >>

\* tui.py:953
TimeoutResult == << FALSE, << >>, "Timeout waiting for device" >>

\* fault: the loop gives up one tick early
WaitExpired_OneEarly(t, limit) == ~(t < limit - 1)

\* tui.py:921  the test that ends the loop
WaitExpired(t, limit) == ~(t < limit)

InitWait ==
    /\ FlashIdle
    /\ AddIdle
    /\ ResolveIdle
    /\ ProbeLocalsIdle
    /\ serial_pattern \in Patterns
    /\ wf = "loop"
    /\ timeout \in 2..MaxTimeout
    /\ interval \in 1..MaxInterval
    /\ elapsed = 0
    /\ overrun = 0
    /\ dir_before \in Dirs
    /\ dir_after \in Dirs
    /\ change_at \in 0..MaxTimeout
    /\ wait_result = << >>
    /\ listings = << >>

\* tui.py:921-949  one turn of the loop: the directory is scanned, the first
\* device that matches is classified, else the thread sleeps; the turn takes
\* interval ticks or more
WaitScan ==
    /\ wf = "loop"
    /\ ~WaitExpired(elapsed, timeout)
    /\ LET devices == scan_serial_devices(DirAt(elapsed))
           hits == PlainMatches(devices, serial_pattern)
       IN  /\ listings' = Append(listings, devices)
           /\ IF hits # << >>
              THEN /\ wait_result' = ClassifyMatch(hits[1])
                   /\ wf' = "done"
                   /\ UNCHANGED << elapsed, overrun >>
              ELSE /\ \E late \in 0..MaxOverrun :
                         /\ elapsed' = elapsed + interval + late
                         /\ overrun' = late
                   /\ UNCHANGED << wf, wait_result >>
    /\ UNCHANGED << flashVars, addVars, probeVars, resolveVars, timeout, interval, dir_before,
                    dir_after, change_at >>

\* tui.py:921, 951-953  timeout has elapsed
WaitExpire ==
    /\ wf = "loop"
    /\ WaitExpired(elapsed, timeout)
    /\ wait_result' = TimeoutResult
    /\ wf' = "done"
    /\ UNCHANGED << flashVars, addVars, probeVars, resolveVars, timeout, interval, elapsed, overrun,
                    dir_before, dir_after, change_at, listings >>

NextWait ==
    \/ WaitScan
    \/ WaitExpire

SpecWait == InitWait /\ [][NextWait]_vars


\* ======================================================= device resolution
MaxEntries == 2    \* entries in the registry

\* models.py:24-32  a DeviceEntry, as far as the resolution reads it
DeviceEntry(key, pattern, flashable) ==
    [key |-> key, serial_pattern |-> pattern, flashable |-> flashable]

\* the registries: entry i has key i, so key order is sequence order
Registries ==
    UNION { { r \in [1..n -> [key : 1..n, serial_pattern : Patterns,
                              flashable : BOOLEAN]] :
                \A i \in 1..n : r[i].key = i } : n \in 1..MaxEntries }

\* what scan_serial_devices can return
Scans == { scan_serial_devices(d) : d \in Dirs }

\* fault: two matches do not yet count as a duplicate
IsDuplicate_MoreThanTwo(matches) == Len(matches) > 2

\* flash.py:464, 1737  a pattern with more than one match is a duplicate
IsDuplicate(matches) == Len(matches) > 1

\* discovery.py:77-104  find_registered_devices: each entry is paired with
\* the first device one of its variants matches; that device leaves the
\* unmatched list
find_registered_devices(devices, entries) ==
    LET hit == SelectSeq(entries,
                   LAMBDA e : match_devices(e.serial_pattern, devices) # << >>)
        pairs == [i \in 1..Len(hit) |->
                     << hit[i], match_device(hit[i].serial_pattern, devices) >>]
    IN  [matched |-> pairs,
         unmatched |-> SelectSeq(devices,
                           LAMBDA d : \A i \in 1..Len(pairs) : pairs[i][2] # d)]

\* flash.py:44-50  DEFAULT_BLOCKED_DEVICES after _normalize_pattern (the
\* registry lists no blocked devices of its own)
BlockedPatterns == << << "usb-", "beacon", "_", "*" >> >>

\* flash.py:70-84  _blocked_reason_for_entry
blocked_reason_for_entry(entry) ==
    LET sp == LowerName(entry.serial_pattern) IN
    IF \E i \in 1..Len(BlockedPatterns) :
          FnMatch(sp, BlockedPatterns[i]) \/ FnMatch(BlockedPatterns[i], sp)
    THEN "Blocked by policy"
    ELSE IF ~(StartsWith(sp, KlipperPrefixLower) \/ StartsWith(sp, KatapultPrefixLower))
         THEN "Unsupported USB device"
         ELSE None

\* a registry and the attached devices, whatever the function called
ResolveInputs ==
    /\ FlashIdle
    /\ AddIdle
    /\ ProbeIdle
    /\ WaitIdle
    /\ sel = "start"
    /\ registry \in Registries
    /\ usb_devices \in Scans
    /\ ResolveLocalsInit

InitResolve ==
    /\ func \in { "cmd_flash", "find_registered_devices" }
    /\ ResolveInputs
    /\ device_key \in 0..MaxEntries + 1
    /\ (func # "cmd_flash" => device_key = 0)
    /\ explicit = (device_key # 0)

\* cmd_flash_all at the start of stage 4
InitBatch ==
    /\ func = "cmd_flash_all"
    /\ ResolveInputs
    /\ device_key = 0
    /\ explicit = FALSE

\* the command returns v
ResolveReturns(v) ==
    /\ sel' = "returned"
    /\ exit_code' = v

\* a call of find_registered_devices(usb_devices, data.devices)
FindRegisteredDevices ==
    /\ func = "find_registered_devices"
    /\ sel = "start"
    /\ matched' = find_registered_devices(usb_devices, registry).matched
    /\ unmatched' = find_registered_devices(usb_devices, registry).unmatched
    /\ sel' = "returned"
    /\ UNCHANGED << flashVars, addVars, probeVars, waitVars, func, registry, usb_devices,
                    explicit, device_key, usb_device, duplicate_matches,
                    blocked_entries, exit_code, dup_listed, flashed, fa_pos >>


\* registry.get(key): the entry with this key, when there is one
Registered(key) == key \in 1..Len(registry)
EntryOf(key) == registry[key]

\* cmd_flash goes on with the device it resolved
Resolved(key, device) ==
    /\ device_key' = key
    /\ usb_device' = device
    /\ sel' = "resolved"
    /\ UNCHANGED exit_code

\* flash.py:459-471  scan, duplicate_matches, blocked_entries
CmdFlashDiscovery ==
    /\ func = "cmd_flash"
    /\ sel = "start"
    /\ duplicate_matches' =
          { k \in 1..Len(registry) :
               IsDuplicate(match_devices(registry[k].serial_pattern, usb_devices)) }
    /\ blocked_entries' =
          { k \in 1..Len(registry) : blocked_reason_for_entry(registry[k]) # None }
    /\ sel' = IF device_key = 0 THEN "interactive" ELSE "explicit"
    /\ UNCHANGED << flashVars, addVars, probeVars, waitVars, func, registry, usb_devices,
                    explicit, device_key, usb_device, matched, unmatched,
                    exit_code, dup_listed, flashed, fa_pos >>

\* flash.py:473-638  interactive mode: the selectable list and the choice
CmdFlashInteractive ==
    /\ sel = "interactive"
    /\ IF usb_devices = << >>
       THEN /\ ResolveReturns("1")
            /\ UNCHANGED << matched, unmatched, dup_listed, device_key, usb_device >>
       ELSE LET found == find_registered_devices(usb_devices, registry)
                selectable == SelectSeq(found.matched,
                                  LAMBDA p : /\ p[1].key \notin duplicate_matches
                                             /\ p[1].key \notin blocked_entries)
                flashable_matched == SelectSeq(selectable, LAMBDA p : p[1].flashable)
            IN  /\ matched' = selectable
                /\ unmatched' = found.unmatched
                /\ dup_listed' = duplicate_matches
                /\ IF flashable_matched = << >>
                   THEN ResolveReturns("1") /\ UNCHANGED << device_key, usb_device >>
                   ELSE \E choice \in 0..Len(flashable_matched) :
                           IF choice = 0
                           THEN /\ ResolveReturns("0")
                                /\ UNCHANGED << device_key, usb_device >>
                           ELSE Resolved(flashable_matched[choice][1].key,
                                         flashable_matched[choice][2])
    /\ UNCHANGED << flashVars, addVars, probeVars, waitVars, func, registry, usb_devices,
                    explicit, duplicate_matches, blocked_entries, flashed, fa_pos >>

\* flash.py:639-704  explicit mode: --device KEY
CmdFlashExplicit ==
    /\ sel = "explicit"
    /\ LET entry == EntryOf(device_key) IN
       IF ~Registered(device_key)
       THEN ResolveReturns("1") /\ UNCHANGED << dup_listed, device_key, usb_device >>
       ELSE IF blocked_reason_for_entry(entry) # None \/ ~entry.flashable
       THEN ResolveReturns("1") /\ UNCHANGED << dup_listed, device_key, usb_device >>
       ELSE IF device_key \in duplicate_matches
       THEN /\ dup_listed' = { device_key }
            /\ ResolveReturns("1")
            /\ UNCHANGED << device_key, usb_device >>
       ELSE IF match_device(entry.serial_pattern, usb_devices) = << >>
       THEN ResolveReturns("1") /\ UNCHANGED << dup_listed, device_key, usb_device >>
       ELSE /\ Resolved(device_key, match_device(entry.serial_pattern, usb_devices))
            /\ UNCHANGED dup_listed
    /\ UNCHANGED << flashVars, addVars, probeVars, waitVars, func, registry, usb_devices,
                    explicit, duplicate_matches, blocked_entries, matched,
                    unmatched, flashed, fa_pos >>

\* what a flash is started against: the entry, the device, and how many
\* attached devices the entry's pattern matched at that time
Target(entry, device) ==
    [key |-> entry.key, device |-> device,
     candidates |-> Len(match_devices(entry.serial_pattern, usb_devices))]

\* flash.py:704-998  the later phases (build, service stop, flash_device) run
\* against device_path = usb_device.path
CmdFlashLaterPhases ==
    /\ sel = "resolved"
    /\ flashed' = Append(flashed, Target(EntryOf(device_key), usb_device))
    /\ sel' = "flashing"
    /\ UNCHANGED << flashVars, addVars, probeVars, waitVars, func, registry, usb_devices,
                    explicit, device_key, usb_device, duplicate_matches,
                    blocked_entries, matched, unmatched, exit_code, dup_listed,
                    fa_pos >>


\* Klipper and katapult prefix swapped: the name of the same board in the
\* other mode
OtherMode(name) ==
    IF StartsWith(name, KlipperPrefix) THEN KatapultPrefix \o Rest(name)
    ELSE IF StartsWith(name, KatapultPrefix) THEN KlipperPrefix \o Rest(name)
    ELSE name

\* flash.py:1231  the re-scan after a flash: the flashed board is listed as
\* before, under its other prefix, or not at all
Rescans(device) ==
    LET dir == { usb_devices[i] : i \in 1..Len(usb_devices) } IN
    { scan_serial_devices(d) :
        d \in { dir, dir \ { device },
                (dir \ { device }) \cup ({ OtherMode(device) } \cap Names) } }

\* flash.py:1189-1234  stage 4, one turn of the loop over built_results: an
\* entry that is not flashable, not in flash_list or not built has no turn
FlashAllTurn ==
    /\ func = "cmd_flash_all"
    /\ sel = "start"
    /\ fa_pos < Len(registry)
    /\ fa_pos' = fa_pos + 1
    /\ LET entry == registry[fa_pos + 1]
           device == match_device(entry.serial_pattern, usb_devices)
       IN  \E built \in BOOLEAN, success \in BOOLEAN :
              IF ~entry.flashable \/ ~built \/ device = << >>
              THEN UNCHANGED << usb_device, usb_devices, flashed >>
              ELSE /\ usb_device' = device
                   /\ flashed' = Append(flashed, Target(entry, device))
                   /\ IF success
                      THEN usb_devices' \in Rescans(device)
                      ELSE UNCHANGED usb_devices
    /\ UNCHANGED << flashVars, addVars, probeVars, waitVars, func, sel, registry,
                    explicit, device_key, duplicate_matches, blocked_entries,
                    matched, unmatched, exit_code, dup_listed >>

NextResolve ==
    \/ FindRegisteredDevices
    \/ CmdFlashDiscovery
    \/ CmdFlashInteractive
    \/ CmdFlashExplicit
    \/ CmdFlashLaterPhases

SpecResolve == InitResolve /\ [][NextResolve]_vars

NextBatch == FlashAllTurn

SpecBatch == InitBatch /\ [][NextBatch]_vars


\* =========================================================== cmd_add_device
MaxRegistered == 1   \* entries of the registry when cmd_add_device starts

\* the serial directories cmd_add_device can scan: the board A1 is listed
\* under one of its names at most
BoardA1 == { KlipperA1Bare, KlipperA1, KatapultA1, LowerKlipperA1 }
AddDirs == { d \in SUBSET Filenames : Cardinality(d \cap BoardA1) <= 1 }

\* the registries it can load: every pattern was generated from a name
AddPatterns == { generate_serial_pattern(n) : n \in Filenames }
AddRegistries ==
    UNION { { r \in [1..n -> [key : 1..n, serial_pattern : AddPatterns,
                              flashable : { TRUE }]] :
                \A i \in 1..n : r[i].key = i } : n \in 0..MaxRegistered }

\* flash.py:1538-1541  the TUI hands over the device it had listed
InitAdd ==
    /\ FlashIdle
    /\ ProbeIdle
    /\ WaitIdle
    /\ func = "cmd_add_device"
    /\ sel = "find_existing"
    /\ registry \in AddRegistries
    /\ usb_devices \in { scan_serial_devices(d) : d \in AddDirs }
    /\ explicit = FALSE
    /\ device_key = 0
    /\ ResolveLocalsInit
    /\ selected \in Filenames
    /\ AddLocalsInit

\* cmd_add_device returns code
AddReturns(code) ==
    /\ exit_code' = code
    /\ sel' = "returned"

\* flash.py:1547-1554  the entries the loop goes through: up to the first one
\* whose matches hold the selected filename
EntriesVisited ==
    LET hits == { i \in 1..Len(registry) :
                    \E j \in 1..Len(match_devices(registry[i].serial_pattern, usb_devices)) :
                        match_devices(registry[i].serial_pattern, usb_devices)[j] = selected }
    IN  IF hits = {} THEN Len(registry)
        ELSE CHOOSE i \in hits : \A h \in hits : i <= h

\* flash.py:1543-1554  is the selected device registered already
AddFindExisting ==
    /\ func = "cmd_add_device"
    /\ sel = "find_existing"
    /\ entry_variants' = [i \in 1..EntriesVisited |->
                             [pattern |-> registry[i].serial_pattern,
                              variants |-> prefix_variants(registry[i].serial_pattern)]]
    /\ existing_entry' =
          IF /\ EntriesVisited > 0
             /\ \E j \in 1..Len(usb_devices) :
                   /\ usb_devices[j] = selected
                   /\ MatchesAnyVariant(selected, registry[EntriesVisited].serial_pattern)
          THEN registry[EntriesVisited].key
          ELSE 0
    /\ sel' = "existing"
    /\ UNCHANGED << flashVars, probeVars, waitVars, func, registry, usb_devices,
                    explicit, device_key, usb_device, duplicate_matches,
                    blocked_entries, matched, unmatched, exit_code, dup_listed,
                    flashed, fa_pos, selected, gen_pattern, pattern_matches >>

\* flash.py:1656-1731  an existing entry is removed when the operator agrees;
\* then the key, the name and the MCU are asked for
AddWizard ==
    /\ func = "cmd_add_device"
    /\ sel = "existing"
    /\ \E confirmed \in BOOLEAN, answered \in BOOLEAN :
          IF existing_entry # 0 /\ ~confirmed
          THEN AddReturns("0") /\ UNCHANGED registry
          ELSE /\ registry' = SelectSeq(registry, LAMBDA e : e.key # existing_entry)
               /\ IF answered
                  THEN sel' = "pattern" /\ UNCHANGED exit_code
                  ELSE AddReturns("1")
    /\ UNCHANGED << flashVars, probeVars, waitVars, func, usb_devices,
                    explicit, device_key, usb_device, duplicate_matches,
                    blocked_entries, matched, unmatched, dup_listed,
                    flashed, fa_pos, addVars >>

\* flash.py:1732-1743  the pattern is generated; a pattern that matches more
\* than one attached device is refused
AddPattern ==
    /\ func = "cmd_add_device"
    /\ sel = "pattern"
    /\ gen_pattern' = generate_serial_pattern(selected)
    /\ pattern_matches' = match_devices(gen_pattern', usb_devices)
    /\ IF IsDuplicate(pattern_matches')
       THEN AddReturns("1")
       ELSE sel' = "overlap" /\ UNCHANGED exit_code
    /\ UNCHANGED << flashVars, probeVars, waitVars, func, registry, usb_devices,
                    explicit, device_key, usb_device, duplicate_matches,
                    blocked_entries, matched, unmatched, dup_listed,
                    flashed, fa_pos, selected, existing_entry, entry_variants >>

\* flash.py:1749-1762  the pattern, or the selected filename, is taken already
Overlaps(entry) ==
    \/ entry.serial_pattern = gen_pattern
    \/ FnMatch(selected, entry.serial_pattern)

\* the key the operator gives the new entry (flash.py:1701: not a key in use)
NewKey == MaxRegistered + 1

\* flash.py:1746-1813  overlap with the registry is refused; else the flash
\* method and the exclusion are asked for and the entry is added
AddRegister ==
    /\ func = "cmd_add_device"
    /\ sel = "overlap"
    /\ \E method_given \in BOOLEAN, exclude_from_flash \in BOOLEAN :
          IF (\E i \in 1..Len(registry) : Overlaps(registry[i])) \/ ~method_given
          THEN AddReturns("1") /\ UNCHANGED registry
          ELSE /\ registry' = Append(registry, [key |-> NewKey,
                                                serial_pattern |-> gen_pattern,
                                                flashable |-> ~exclude_from_flash])
               /\ AddReturns("0")
    /\ UNCHANGED << flashVars, probeVars, waitVars, func, usb_devices,
                    explicit, device_key, usb_device, duplicate_matches,
                    blocked_entries, matched, unmatched, dup_listed,
                    flashed, fa_pos, addVars >>

NextAdd ==
    \/ AddFindExisting
    \/ AddWizard
    \/ AddPattern
    \/ AddRegister

SpecAdd == InitAdd /\ [][NextAdd]_vars


\* check_katapult keeps running: the one thread takes its next step, and
\* every subprocess.run and every poll ends (timeouts at flasher.py:186, 203,
\* 278, 314)
SpecProbeLive == SpecProbe /\ WF_vars(NextProbe)

\* =================================================================== claims
\* shorthands over the history
Last(sq) == sq[Len(sq)]
BodyEntered == Count("body_enter") = 1
GuardLeft == pc \in {"propagate", "cf_summary", "fa_summary", "done"}
FdReturned == pc \in {"cf_after_flash", "fa_after_flash"}
FdMethod == NormalizeMethod(preferred_method)
ToolEvents == {"tool_begin", "tool_end", "tool_oserror"}
StartFailures == {"nonzero", "timeout", "oserror"}
PollsEnded(i) ==
    Cardinality({ j \in 1..i : events[j] = "verify_begin" })
      = Cardinality({ j \in 1..i : events[j] \in {"verify_end", "verify_abort"} })

\* C1: once the stop succeeded and the body was entered, the start command is
\* issued exactly once, and only after the body ended, however it ended
\* (normal return, exception, KeyboardInterrupt): never twice, never while
\* the body runs, and always by the time control has left the guard.
C1_StartOnceAfterBody ==
    /\ Count("start") <= 1
    /\ Count("start") = 1 =>
          /\ BodyEntered
          /\ body_outcome # "none"
          /\ Last(events) = "start"
    /\ (BodyEntered /\ GuardLeft) => Count("start") = 1

\* C1 witness: the body was cancelled by KeyboardInterrupt and the start was
\* issued once.
C1_Witness ==
    /\ pc = "done"
    /\ body_outcome = "KeyboardInterrupt"
    /\ Count("start") = 1

\* C2: whatever the start command does (exit 0, exit # 0, timeout, launch
\* error), the exception leaving the with-block is the body's own: none after
\* a normal body, exactly X after a body that raised X; and cmd_flash_all,
\* which catches nothing, lets exactly that leave.
C2_ExitKeepsBodyOutcome ==
    start_outcome \in {"ok"} \cup StartFailures =>
       /\ guard_out = (IF body_outcome = "normal" THEN "none" ELSE body_outcome)
       /\ (cmd = "flash_all" /\ pc = "done" /\ ret = "none") => raised = body_outcome

\* C2 witness: the body raised OSError, the start failed, OSError left.
C2_Witness ==
    /\ pc = "done"
    /\ cmd = "flash_all"
    /\ body_outcome = "OSError"
    /\ start_outcome = "nonzero"
    /\ raised = "OSError"

\* C3: after a stop that exited non-zero or timed out, ServiceError is in
\* flight, the body was never entered, no transfer method was attempted and
\* no tool launched, and cmd_flash returns 1.
C3_StopFailureSkipsBody ==
    stop_outcome \in {"nonzero", "timeout"} =>
       /\ ~BodyEntered
       /\ body_outcome = "none"
       /\ \A i \in 1..Len(events) : events[i] \notin ToolEvents
       /\ pc \in {"propagate", "done"}
       /\ pc = "propagate" => exc = "ServiceError"
       /\ (cmd = "flash" /\ pc = "done") => (ret = "1" /\ raised = "none")

\* C3 witness: cmd_flash returned 1 after the stop timed out.
C3_Witness ==
    /\ cmd = "flash"
    /\ stop_outcome = "timeout"
    /\ pc = "done"
    /\ ret = "1"

\* C4: a transfer tool runs, and is launched, only between a successful stop
\* and the start: never before the stop succeeded, never after the start.
C4_TransferInsideGuard ==
    /\ pc = "tool_running" =>
          /\ stop_outcome = "ok"
          /\ Count("stop") = 1
          /\ Count("start") = 0
    /\ \A i \in 1..Len(events) :
          events[i] \in ToolEvents =>
             /\ stop_outcome = "ok"
             /\ \E j \in 1..(i - 1) : events[j] = "stop"
             /\ \A j \in 1..i : events[j] # "start"

\* C4 witness: the transfer for the second device of a batch is running.
C4_Witness ==
    /\ cmd = "flash_all"
    /\ pc = "tool_running"
    /\ idx = 2

\* C5: the verification poll is started exactly after a flash_device success
\* (never after a failure), and the start command is never issued while a
\* poll is under way: every poll begun has ended (returned, or was cancelled
\* by KeyboardInterrupt) before the start.
C5_VerifyBeforeStart ==
    /\ pc = "wfd" => (flash_result.success /\ Count("start") = 0)
    /\ \A i \in 1..Len(events) :
          /\ events[i] = "verify_begin" => (i > 1 /\ events[i - 1] = "flash_ok")
          /\ (events[i] = "flash_ok" /\ i < Len(events))
                => events[i + 1] = "verify_begin"
          /\ (events[i] = "flash_fail" /\ i < Len(events))
                => events[i + 1] # "verify_begin"
          /\ events[i] = "start" => PollsEnded(i)
    /\ (GuardLeft /\ BodyEntered) =>
          Count("verify_begin") = Count("flash_ok")

\* C5 witness: in a batch one device failed to flash, another was flashed and
\* its poll returned, and the start was issued.
C5_Witness ==
    /\ Count("flash_fail") = 1
    /\ Count("verify_end") = 1
    /\ Count("start") = 1

\* C6: a KeyboardInterrupt that ends the body of cmd_flash (delivered while
\* a transfer tool or the poll runs) leaves cmd_flash as KeyboardInterrupt,
\* with no return value, after exactly one start command.
C6_InterruptPropagates ==
    (cmd = "flash" /\ body_outcome = "KeyboardInterrupt") =>
       /\ GuardLeft => Count("start") = 1
       /\ pc = "propagate" => exc = "KeyboardInterrupt"
       /\ pc = "done" => (raised = "KeyboardInterrupt" /\ ret = "none")

\* C6 witness: the poll of cmd_flash was cancelled and KeyboardInterrupt left
\* the command.
C6_Witness ==
    /\ cmd = "flash"
    /\ pc = "done"
    /\ Count("verify_abort") = 1
    /\ raised = "KeyboardInterrupt"

\* C7: for a known method, flash_device without fallback attempts exactly
\* the preferred method; with fallback and the preferred tool exiting
\* non-zero or timing out it attempts exactly two, preferred then the other,
\* and returns the second attempt's result.
C7_AttemptsAndResult ==
    FdMethod \in KnownMethods =>
       /\ Len(fd_attempts) <= (IF allow_fallback THEN 2 ELSE 1)
       /\ (FdReturned /\ ~allow_fallback) => fd_attempts = << FdMethod.core >>
       /\ (FdReturned /\ allow_fallback /\ fd_tools # << >>
             /\ fd_tools[1].method = FdMethod.core
             /\ fd_tools[1].outcome \in {"nonzero", "timeout"}) =>
                /\ fd_attempts = << FdMethod.core, OtherMethod(FdMethod.core) >>
                /\ Len(fd_results) = 2
                /\ flash_result = fd_results[2]
                /\ flash_result.method = OtherMethod(FdMethod.core)

\* C7 witness: the preferred tool timed out and the fallback's success was
\* returned.
C7_Witness ==
    /\ FdReturned
    /\ allow_fallback
    /\ Len(fd_tools) = 2
    /\ fd_tools[1].outcome = "timeout"
    /\ flash_result.success

\* C8: when the preferred attempt succeeds flash_device returns it at once
\* (success, the preferred method, nothing else attempted), and a successful
\* result always names the method of the last tool launched, which exited 0.
C8_SuccessNamesTheTool ==
    /\ \A i \in 1..(Len(fd_results) - 1) : ~fd_results[i].success
    /\ FdReturned =>
          /\ (fd_results # << >> /\ fd_results[1].success) =>
                /\ flash_result = FlashResult(TRUE, FdMethod.core, "<None>")
                /\ Len(fd_attempts) = 1
                /\ Len(fd_tools) = 1
          /\ flash_result.success =>
                /\ fd_tools # << >>
                /\ Last(fd_tools).method = flash_result.method
                /\ Last(fd_tools).outcome = "ok"
                /\ \A i \in 1..(Len(fd_tools) - 1) : fd_tools[i].outcome # "ok"

\* C8 witness: make_flash was preferred and succeeded with fallback allowed;
\* one tool was launched.
C8_Witness ==
    /\ FdReturned
    /\ allow_fallback
    /\ flash_result = FlashResult(TRUE, "make_flash", "<None>")
    /\ Len(fd_tools) = 1

\* C9 as stated: every preferred_method that is not literally "katapult" or
\* "make_flash" gives an immediate failed result with no tool launched.
C9_AsStated ==
    (FdReturned /\ preferred_method \notin KnownMethods) =>
       (~flash_result.success /\ fd_tools = << >>)

\* C9 amended: every preferred_method whose normalised form (None or empty
\* read as "katapult", whitespace stripped, lower-cased) is not a known
\* method gives an immediate failed result: no method attempted, no tool
\* launched.
C9_UnknownMethodRejected ==
    FdMethod \notin KnownMethods =>
       /\ pc \notin {"fd_loop", "tool_running", "fd_after"}
       /\ fd_attempts = << >>
       /\ fd_tools = << >>
       /\ FdReturned =>
             flash_result = FlashResult(FALSE, FdMethod.core, "Unknown flash method")

\* C9 witness: flash_device returned for the unknown method "dfu".
C9_Witness ==
    /\ FdReturned
    /\ FdMethod.core = "dfu"
    /\ ~flash_result.success

\* C10: flash_device never raises: a tool that cannot be launched (OSError)
\* becomes a failed FlashResult of that attempt, so no OSError ends the
\* guarded body.
C10_FlashDeviceNeverRaises ==
    /\ body_outcome # "OSError"
    /\ \A i \in 1..Len(fd_tools) :
          fd_tools[i].outcome = "oserror" =>
             (FdReturned => (Len(fd_results) >= i /\ ~fd_results[i].success))

\* ------------------------------------------------ claims on check_katapult
Returned == ck = "done"
LogHas(ops, outcomes) ==
    \E i \in 1..Len(ck_log) : ck_log[i].op \in ops /\ ck_log[i].outcome \in outcomes
\* name holds hex right after an underscore
Carries(name, hex) ==
    /\ hex # << >>
    /\ \E k \in 1..Len(name) - Len(hex) :
          name[k] = "_" /\ SubSeq(name, k + 1, k + Len(hex)) = hex
CleanVerdict ==
    \/ check_result.has_katapult = "False"
    \/ check_result.has_katapult = "True" /\ check_result.error_message = None

\* C11: check_katapult returns has_katapult=True only if, in this call, the
\* enter-bootloader run exited with code 0 and a later poll of the serial
\* directory saw a name with the katapult prefix that carries the serial
\* number cut out of device_path.
C11_TrueOnlyIfObserved ==
    check_result.has_katapult = "True" =>
        \E i, j \in 1..Len(ck_log) :
            /\ i < j
            /\ ck_log[i].op = "enter" /\ ck_log[i].outcome = "ok"
            /\ ck_log[j].op = "poll_katapult" /\ ck_log[j].outcome = "found"
            /\ StartsWith(ck_log[j].seen, KatapultPrefix)
            /\ Carries(ck_log[j].seen, extract_serial_hex(device_path))

C11_Witness ==
    /\ Returned
    /\ check_result.has_katapult = "True"
    /\ LogHas({"enter"}, {"ok"})

C13_RecoveryAttempted ==
    (ck \in {"done", "raised"} /\ LogHas({"enter"}, {"ok", "nonzero", "timeout"}))
        => LogHas({"second", "tee0"}, ProbeRunOutcomes)

\* C14: a clean verdict (False, or True without a diagnostic) is returned
\* only when the last poll saw the device under the Klipper prefix.
C14_CleanOnlyInNormalMode ==
    (Returned /\ CleanVerdict) =>
        /\ ck_recovered # << >>
        /\ StartsWith(LowerName(ck_recovered), KlipperPrefixLower)

\* ----------------------------------------------- claims on wait_for_device
WaitReturned == wf = "done"
NormalMode(name) == StartsWith(LowerName(name), KlipperPrefixLower)
ProgrammingMode(name) == StartsWith(LowerName(name), KatapultPrefixLower)
\* positions of a listing whose name matches the pattern as it is
HitsIn(listing) == { i \in 1..Len(listing) : FnMatch(listing[i], serial_pattern) }
NoScanMatched == \A k \in 1..Len(listings) : HitsIn(listings[k]) = {}
FirstHit(listing) == listing[CHOOSE i \in HitsIn(listing) : \A j \in HitsIn(listing) : i <= j]
VerifiedResult ==
    /\ wait_result[1] = TRUE
    /\ wait_result[3] = None
    /\ NormalMode(wait_result[2])
    /\ FnMatch(wait_result[2], serial_pattern)

\* C15: wait_for_device classifies the first device of a scan that matches
\* the pattern by its prefix: Klipper gives (True, path, None), katapult a
\* failure that names bootloader mode, any other prefix a failure that names
\* an unexpected prefix; when no scan matched it returns (False, None,
\* timeout reason); verified=True only comes with a Klipper-prefixed name.
C15_ClassifiedByPrefix ==
    WaitReturned =>
        /\ NoScanMatched =>
              wait_result = << FALSE, << >>, "Timeout waiting for device" >>
        /\ \A k \in 1..Len(listings) :
              HitsIn(listings[k]) # {} =>
                 LET d == FirstHit(listings[k]) IN
                 wait_result =
                    CASE NormalMode(d) -> << TRUE, d, None >>
                      [] ProgrammingMode(d) ->
                           << FALSE, d, "Device in bootloader mode (katapult)" >>
                      [] OTHER -> << FALSE, d, "Unexpected device prefix" >>
        /\ wait_result[1] = TRUE => NormalMode(wait_result[2])

C15_Witness ==
    /\ WaitReturned
    /\ Len(listings) > 1
    /\ ProgrammingMode(wait_result[2])
    /\ wait_result[3] = "Device in bootloader mode (katapult)"

\* C16: for a pattern with the Klipper prefix and a board that every scan
\* lists only under the katapult prefix with the same suffix,
\* wait_for_device returns the wrong-mode failure, not the timeout.
C16_WrongModeNotTimeout ==
    ( /\ WaitReturned
      /\ NormalMode(serial_pattern)
      /\ listings # << >>
      /\ \A k \in 1..Len(listings) :
            /\ HitsIn(listings[k]) = {}
            /\ \E i \in 1..Len(listings[k]) :
                  FnMatch(listings[k][i], KatapultPrefix \o Rest(serial_pattern)) )
        => /\ wait_result[1] = FALSE
           /\ wait_result[3] = "Device in bootloader mode (katapult)"

\* a Klipper-mode device that matches the pattern is in the directory from
\* tick t on
AppearsBy(t) ==
    /\ change_at <= t
    /\ \E d \in dir_after : NormalMode(d) /\ FnMatch(d, serial_pattern)
TimeoutOnlyAfterTimeout ==
    wait_result[2] = << >> => ~(elapsed < timeout) /\ NoScanMatched

\* C17 as stated: a Klipper-mode device that appears up to timeout - interval
\* after the start gives (True, path, None); the timeout failure comes only
\* once timeout has elapsed with no scan having found a match.
C17_AsStated ==
    WaitReturned =>
        /\ AppearsBy(timeout - interval) => VerifiedResult
        /\ TimeoutOnlyAfterTimeout

\* C17 amended: a Klipper-mode device that appears and stays gives (True,
\* path, None) if it appeared no later than timeout - interval minus the
\* ticks by which the last turn of the loop overran interval; a Klipper-mode
\* device listed by a scan always gives (True, path, None); the timeout
\* failure comes only once timeout has elapsed with no scan having found a
\* match.
C17_SeenByLastScan ==
    WaitReturned =>
        /\ AppearsBy(timeout - interval - overrun) => VerifiedResult
        /\ (\E k \in 1..Len(listings) :
               HitsIn(listings[k]) # {} /\ NormalMode(FirstHit(listings[k])))
              => VerifiedResult
        /\ TimeoutOnlyAfterTimeout

C17_Witness ==
    /\ WaitReturned
    /\ VerifiedResult
    /\ change_at = timeout - interval
    /\ Len(listings) > 1
    /\ HitsIn(listings[1]) = {}

\* --------------------------------------------- claims on device resolution
\* the entry with key k matches two or more of the attached devices
Ambiguous(k) ==
    Cardinality({ i \in 1..Len(usb_devices) :
                    MatchesAnyVariant(usb_devices[i], registry[k].serial_pattern) }) >= 2
PastDiscovery == sel \in { "returned", "resolved", "flashing" }
NeverFlashed(k) ==
    /\ \A i \in 1..Len(flashed) : flashed[i].key # k
    /\ sel \in { "resolved", "flashing" } => device_key # k
NotSelectable(k) ==
    (~explicit /\ PastDiscovery) =>
        \A i \in 1..Len(matched) : matched[i][1].key # k

\* C18 as stated: in cmd_flash an identity that matches two or more attached
\* devices is never flashed; with --device the command returns 1 and lists
\* the duplicates; in interactive mode the identity is not in the
\* selectable list.
C18_AsStated ==
    func = "cmd_flash" =>
        \A k \in 1..Len(registry) :
            Ambiguous(k) =>
                /\ NeverFlashed(k)
                /\ NotSelectable(k)
                /\ (explicit /\ device_key = k /\ PastDiscovery) =>
                      exit_code = "1" /\ k \in dup_listed

\* C18 amended: in cmd_flash an identity that matches two or more attached
\* devices is never flashed: with --device the command returns 1 before the
\* later phases, and lists the duplicates unless the entry is blocked or not
\* flashable (that error comes first); in interactive mode the identity is
\* not in the selectable list.
C18_DuplicateNeverFlashed ==
    func = "cmd_flash" =>
        \A k \in 1..Len(registry) :
            Ambiguous(k) =>
                /\ NeverFlashed(k)
                /\ NotSelectable(k)
                /\ (explicit /\ device_key = k /\ PastDiscovery) =>
                      /\ exit_code = "1"
                      /\ (registry[k].flashable
                            /\ blocked_reason_for_entry(registry[k]) = None)
                            => k \in dup_listed

C18_Witness ==
    /\ func = "cmd_flash"
    /\ explicit
    /\ sel = "returned"
    /\ Registered(device_key)
    /\ Ambiguous(device_key)
    /\ device_key \in dup_listed
    /\ exit_code = "1"

\* C19: cmd_flash_all starts no flash for an identity whose pattern matches
\* more than one attached device.
C19_FlashAllSkipsAmbiguous ==
    func = "cmd_flash_all" =>
        \A i \in 1..Len(flashed) : flashed[i].candidates <= 1

\* C20: find_registered_devices returns no pair for an identity whose
\* pattern matches two or more of the given devices.
C20_NoAmbiguousPair ==
    (func = "find_registered_devices" /\ sel = "returned") =>
        \A i \in 1..Len(matched) : ~Ambiguous(matched[i][1].key)

\* ------------------------------------------------------------------ C21, C22
FrdReturned == func = "find_registered_devices" /\ sel = "returned"

\* how many pairs of matched hold the device, how many times unmatched does
TimesMatched(d) == Cardinality({ i \in 1..Len(matched) : matched[i][2] = d })
TimesUnmatched(d) == Cardinality({ i \in 1..Len(unmatched) : unmatched[i] = d })

\* some registered identity's variant-expanded pattern matches the name
MatchedBySome(d) ==
    \E k \in 1..Len(registry) : MatchesAnyVariant(d, registry[k].serial_pattern)

\* C21: every attached device is in exactly one bucket of
\* find_registered_devices, once: one pair of matched or one place of
\* unmatched, also when two identities match the same device.
C21_ExactlyOneBucket ==
    FrdReturned =>
        \A i \in 1..Len(usb_devices) :
            TimesMatched(usb_devices[i]) + TimesUnmatched(usb_devices[i]) = 1

\* C22: unmatched holds exactly the attached devices that no registered
\* identity's variant-expanded pattern matches.
C22_UnmatchedIffNoIdentity ==
    FrdReturned =>
        \A i \in 1..Len(usb_devices) :
            (TimesUnmatched(usb_devices[i]) > 0) <=> ~MatchedBySome(usb_devices[i])

\* ----------------------------------------------------------------------- C23
\* the events at which cmd_flash_all looks a device up in usb_devices
Lookups == { "flash_device", "not_found" }

\* C23: in cmd_flash_all the list a device is looked up in was scanned after
\* the flash/verify cycle of every device before it had finished, whatever
\* that cycle's outcome.
C23_ListScannedAfterEachCycle ==
    cmd = "flash_all" =>
        \A i \in 1..Len(events), j \in 1..Len(events) :
            (i < j /\ events[i] = "flash_device" /\ events[j] \in Lookups) =>
                \E k \in (i + 1)..(j - 1) : events[k] = "scan"

\* ----------------------------------------------------------------------- C24
\* the positions of events at which a device's turn of the loop looks it up
LookupAt(j) == j \in 1..Len(events) /\ events[j] \in Lookups
FirstLookup(j) == LookupAt(j) /\ \A i \in 1..(j - 1) : ~LookupAt(i)

\* what begins at position i has ended before position j
EndedBetween(i, j, ends) == \E k \in (i + 1)..(j - 1) : events[k] \in ends

\* C24: in cmd_flash_all, at the moment a device is looked up, the flash
\* attempt, every tool run and the verification poll of every device before
\* it have ended, and the stagger delay has elapsed just before the lookup
\* of every device except the first. (events only grows, so every lookup is
\* the last event of some state.)
C24_OneDeviceAtATime ==
    (cmd = "flash_all" /\ LookupAt(Len(events))) =>
        LET j == Len(events) IN
        /\ \A i \in 1..(j - 1) :
              /\ events[i] = "flash_device" =>
                    EndedBetween(i, j, { "flash_ok", "flash_fail" })
              /\ events[i] = "tool_begin" =>
                    EndedBetween(i, j, { "tool_end" })
              /\ events[i] = "verify_begin" =>
                    EndedBetween(i, j, { "verify_end" })
        /\ FirstLookup(j) <=> (j = 1 \/ events[j - 1] # "stagger")

\* a second device is flashed after the first was flashed and verified
C24_Witness ==
    /\ cmd = "flash_all"
    /\ \E i \in 1..Len(events), j \in 1..Len(events) :
          /\ i < j
          /\ events[i] = "verify_end"
          /\ events[j - 1] = "stagger"
          /\ events[j] = "flash_device"
    /\ Count("tool_begin") >= 2

\* ------------------------------------------------------------------ C25, C26
\* cmd_add_device has generated the pattern and matched it
PatternMatched == func = "cmd_add_device" /\ sel \in { "overlap", "returned" }
                      /\ gen_pattern # << >>
Attached(d) == \E i \in 1..Len(usb_devices) : usb_devices[i] = d
InMatches(d) == \E i \in 1..Len(pattern_matches) : pattern_matches[i] = d
HasIfSuffix(filename) == IfSuffixAt(filename) # {}

\* C25: the pattern generated from a filename matches the attached device of
\* that filename, whether or not the filename ends in -if<digits>; without
\* the suffix the pattern is the filename followed by "*".
C25_PatternMatchesItsDevice ==
    (PatternMatched /\ Attached(selected)) =>
        /\ InMatches(selected)
        /\ ~HasIfSuffix(selected) => gen_pattern = selected \o << "*" >>

\* the device selected carries the suffix and is one of two attached
C25_Witness ==
    /\ PatternMatched
    /\ Attached(selected)
    /\ HasIfSuffix(selected)
    /\ Len(usb_devices) >= 2
    /\ pattern_matches = << selected >>


\* the mode whose prefix the pattern starts with, compared as the code
\* compares it: in lower case
ModeOf(p) ==
    IF StartsWith(LowerName(p), KlipperPrefixLower) THEN "klipper"
    ELSE IF StartsWith(LowerName(p), KatapultPrefixLower) THEN "katapult"
         ELSE "none"
OtherVariant(p) ==
    (IF ModeOf(p) = "klipper" THEN KatapultPrefix ELSE KlipperPrefix) \o Rest(p)
ModePrefixes == { KlipperPrefix, KatapultPrefix }
StartsWithModePrefix(s) == \E m \in ModePrefixes : StartsWith(s, m)

\* C26 as stated: a pattern that starts with usb-Klipper_ or usb-katapult_
\* has two variants, one per prefix, with the same rest, and match_devices
\* finds the devices of either prefix whose suffix fits; any other pattern
\* has itself as its only variant.
C26_AsStated ==
    /\ \A i \in 1..Len(entry_variants) :
          LET p == entry_variants[i].pattern
              v == entry_variants[i].variants
          IN  IF StartsWithModePrefix(p)
              THEN /\ Len(v) = 2
                   /\ { SubSeq(v[k], 1, 3) : k \in 1..2 } = ModePrefixes
                   /\ \A k \in 1..2 : Rest(v[k]) = Rest(p)
              ELSE v = << p >>
    /\ (PatternMatched /\ StartsWithModePrefix(gen_pattern)) =>
          \A i \in 1..Len(usb_devices) :
              (StartsWithModePrefix(usb_devices[i])
                  /\ FnMatch(Rest(usb_devices[i]), Rest(gen_pattern)))
                      => InMatches(usb_devices[i])

\* C26: a pattern whose lower-cased text starts with usb-klipper_ or
\* usb-katapult_ has two variants, itself and the other mode's prefix (as
\* usb-Klipper_ or usb-katapult_) followed by the same rest; any other
\* pattern has itself only; match_devices returns the attached devices that
\* one of the variants matches, and no other.
C26_VariantsByLoweredPrefix ==
    /\ \A i \in 1..Len(entry_variants) :
          LET p == entry_variants[i].pattern
              v == entry_variants[i].variants
          IN  IF ModeOf(p) # "none"
              THEN v = << p, OtherVariant(p) >>
              ELSE v = << p >>
    /\ PatternMatched =>
          \A i \in 1..Len(usb_devices) :
              InMatches(usb_devices[i]) <=>
                  \/ FnMatch(usb_devices[i], gen_pattern)
                  \/ /\ ModeOf(gen_pattern) # "none"
                     /\ FnMatch(usb_devices[i], OtherVariant(gen_pattern))

\* an entry was expanded to two variants, and the generated pattern found a
\* device through its other variant only
C26_Witness ==
    /\ PatternMatched
    /\ \E i \in 1..Len(entry_variants) : Len(entry_variants[i].variants) = 2
    /\ \E i \in 1..Len(pattern_matches) : ~FnMatch(pattern_matches[i], gen_pattern)

\* ----------------------------------------------------------------------- C27
EnterFailed == LogHas({"enter"}, {"nonzero", "timeout", "oserror"})
HasDiagnostic == check_result.error_message \notin { None, "" }

\* C27: when the enter-bootloader run exits non-zero, times out or cannot be
\* launched, check_katapult returns has_katapult=None with a diagnostic
\* message, and has polled nothing, run no second tool and written no USB
\* authorization.
C27_EnterFailureIsUnknown ==
    EnterFailed =>
        /\ Returned
        /\ check_result.has_katapult = "None"
        /\ HasDiagnostic
        /\ Len(ck_log) = 1

\* ----------------------------------------------------------------------- C28
\* position in ck_log of the first record of this kind, 0 when there is none
LogAt(op) ==
    IF \E i \in 1..Len(ck_log) : ck_log[i].op = op
    THEN CHOOSE i \in 1..Len(ck_log) :
            ck_log[i].op = op /\ \A j \in 1..(i - 1) : ck_log[j].op # op
    ELSE 0
KatapultSeen == LogHas({"poll_katapult"}, {"found"})

\* the board is back under its normal-mode name: the name the recovery poll
\* returned has the Klipper prefix
NormalIdentityBack == ck_recovered # << >> /\ StartsWith(ck_recovered, KlipperPrefix)

\* C28: once the poll found the katapult device, check_katapult runs the
\* tool a second time against the path found, then polls for the original
\* identity, and returns has_katapult=True whatever the second run did; the
\* diagnostic is set exactly when the normal-mode identity did not come back
\* within that poll.
C28_TrueAfterRecoveryAttempt ==
    (Returned /\ KatapultSeen) =>
        /\ LogAt("second") = LogAt("poll_katapult") + 1
        /\ ck_log[LogAt("second")].seen = ck_found
        /\ LogAt("poll_recovered") = LogAt("second") + 1
        /\ check_result.has_katapult = "True"
        /\ (check_result.error_message # None) <=> ~NormalIdentityBack

\* ------------------------------------------------------------------ C29, C30
NoKatapultSeen == LogHas({"poll_katapult"}, {"timeout"})
ResetCompleted == LogHas({"tee0"}, {"ok"}) /\ LogHas({"tee1"}, {"ok"})

\* C29: when the poll found no katapult device, check_katapult writes the
\* USB authorization reset first and, the reset done, polls for the original
\* identity: has_katapult=False when the normal-mode identity came back,
\* has_katapult=None with the diagnostic otherwise; False is never returned
\* unless the reset completed and the identity was seen after it.
C29_FalseOnlyAfterResetAndReturn ==
    /\ (ck \in { "done", "raised" } /\ NoKatapultSeen) =>
          LogAt("tee0") = LogAt("poll_katapult") + 1
    /\ (Returned /\ NoKatapultSeen /\ ResetCompleted) =>
          /\ LogAt("poll_reset") = LogAt("tee1") + 1
          /\ IF NormalIdentityBack
             THEN check_result = KatapultCheckResult("False", None)
             ELSE check_result = KatapultCheckResult("None",
                                     "Device did not recover after USB reset")
    /\ check_result.has_katapult = "False" =>
          /\ ResetCompleted
          /\ LogHas({"poll_reset"}, {"found"})
          /\ NormalIdentityBack

\* C30: a failure to resolve or to write the USB authorization file (no
\* sysfs path, a write that exits non-zero, cannot be launched or times out)
\* makes check_katapult return has_katapult=None; no exception leaves
\* check_katapult.
C30_ResetFailureIsUnknown ==
    /\ ck # "raised"
    /\ (Returned /\ LogHas({"tee0", "tee1"}, {"nonzero", "oserror", "timeout"}))
          => check_result.has_katapult = "None"
    /\ (Returned /\ check_result.error_message = "Failed to resolve sysfs path")
          => check_result.has_katapult = "None"

\* ----------------------------------------------------------------------- C31
\* the reset is over: its loop has ended or an exception has left it
ResetOver == ck \in { "poll_reset", "done", "raised" }

PreChecks == << "serial", "sysfs", "flashtool" >>
PreCheckMessages == { "Could not extract serial from device path",
                      "Failed to resolve sysfs path",
                      "Katapult flashtool not found" }

\* C32: the enter-bootloader command is run only after the serial number
\* was extracted, the authorization file resolved and flashtool.py found, in
\* that order; when one of the three checks fails check_katapult returns
\* has_katapult=None and has run no tool and written no file.
C32_ChecksBeforeFirstTool ==
    /\ ck_log # << >> =>
          /\ ck_checks = PreChecks
          /\ ck_log[1].op = "enter"
          /\ serial_hex # << >>
    /\ (Returned /\ ck_checks # PreChecks) =>
          /\ check_result.has_katapult = "None"
          /\ check_result.error_message \in PreCheckMessages
          /\ ck_log = << >>

\* the tool is missing: the call has returned after two checks
C32_Witness ==
    /\ Returned
    /\ ck_checks = << "serial", "sysfs" >>
    /\ check_result.error_message = "Katapult flashtool not found"

\* ----------------------------------------------------------------------- C33
TerminalStates == { "True", "False", "None" }

\* C33: every call of check_katapult ends, and ends with one of the three
\* terminal states True, False, unknown.
C33_EndsInOneOfThreeStates ==
    <>(Returned /\ check_result.has_katapult \in TerminalStates)

\* ----------------------------------------------------------------------- C34
LookupCount == Cardinality({ i \in 1..Len(events) : events[i] \in Lookups })
AllPassed(rs) ==
    \A i \in 1..Len(rs) : rs[i].build_ok /\ rs[i].flash_ok /\ rs[i].verify_ok

\* C34: once cmd_flash_all has begun to flash, it ends only after every
\* built device had its turn, whatever failed for the devices before it
\* (the operator's interrupt apart); and it returns 0 only if every device
\* of the batch was built, flashed and verified.
C34_FailureBlocksNoDevice ==
    cmd = "flash_all" =>
        /\ (pc = "done" /\ BodyEntered /\ raised # "KeyboardInterrupt")
              => LookupCount = Cardinality(Built)
        /\ ret = "0" => (Len(results) = n_devices /\ AllPassed(results))

\* ----------------------------------------------------------------------- C35
\* C35: when the device path is missing after the build, cmd_flash returns 1
\* at once: the service is not stopped, no transfer tool is run, and the
\* path is neither looked at again nor resolved anew.
C35_VanishedDeviceReturnsOne ==
    Count("path_missing") > 0 =>
        /\ cmd = "flash"
        /\ pc = "done"
        /\ ret = "1"
        /\ raised = "none"
        /\ events = << "path_missing" >>
        /\ fd_attempts = << >> /\ fd_tools = << >>

C35_Witness ==
    /\ cmd = "flash"
    /\ ret = "1"
    /\ Count("path_missing") = 1

\* ----------------------------------------------------------------------- C36
\* C36: match_devices returns exactly the devices of the scanned list whose
\* filename matches a variant of the pattern, in the order of the list and
\* each at most once; match_device returns the first of them, or None when
\* there is none.
VariantHit(filename, pattern) ==
    \/ FnMatch(filename, pattern)
    \/ \E i \in 1..Len(prefix_variants(pattern)) :
           FnMatch(filename, prefix_variants(pattern)[i])

\* the positions of the scanned list whose device matches the pattern
HitPositions(pattern) ==
    { i \in 1..Len(usb_devices) : VariantHit(usb_devices[i], pattern) }

\* m lists the devices at the positions ps of the scanned list, in order
ListsInOrder(m, ps) ==
    /\ Len(m) = Cardinality(ps)
    /\ \A j \in 1..Len(m) :
          \E i \in ps :
             /\ m[j] = usb_devices[i]
             /\ Cardinality({ h \in ps : h < i }) = j - 1

FirstInScanOrder(pattern) ==
    IF HitPositions(pattern) = {} THEN << >>
    ELSE usb_devices[CHOOSE i \in HitPositions(pattern) :
                         \A h \in HitPositions(pattern) : i <= h]

\* the result cmd_add_device got for the generated pattern, and the results
\* for the patterns of the registry
C36_MatchesInScanOrder ==
    PatternMatched =>
        /\ ListsInOrder(pattern_matches, HitPositions(gen_pattern))
        /\ \A i, j \in 1..Len(pattern_matches) :
              i # j => pattern_matches[i] # pattern_matches[j]
        /\ match_device(gen_pattern, usb_devices) = FirstInScanOrder(gen_pattern)
        /\ \A k \in 1..Len(registry) :
              /\ ListsInOrder(match_devices(registry[k].serial_pattern, usb_devices),
                              HitPositions(registry[k].serial_pattern))
              /\ match_device(registry[k].serial_pattern, usb_devices)
                    = FirstInScanOrder(registry[k].serial_pattern)

\* the pattern matched the second and the third of three attached devices
C36_Witness ==
    /\ PatternMatched
    /\ Len(usb_devices) = 3
    /\ HitPositions(gen_pattern) = { 2, 3 }
    /\ Len(pattern_matches) = 2

\* ----------------------------------------------------------------------- C37
\* C37: once cmd_flash has entered the flash phase and returned, it returned
\* 0 only after flash_device reported success and the poll reported
\* verified; it returned 1 after a success whose poll failed or timed out,
\* and 1 after a failed transfer.
FlashPhaseReturned ==
    /\ cmd = "flash"
    /\ pc = "done"
    /\ raised = "none"
    /\ Count("body_enter") > 0

C37_ZeroOnlyWhenFlashedAndVerified ==
    FlashPhaseReturned =>
        /\ ret \in { "0", "1" }
        /\ ret = "0" => /\ Count("flash_ok") = 1
                        /\ Count("verify_end") = 1
                        /\ flash_result.success
                        /\ verified
        /\ (Count("flash_ok") > 0 /\ ~verified) => ret = "1"
        /\ Count("flash_fail") > 0 => ret = "1"

\* the transfer succeeded, the poll timed out, the command returned 1
C37_Witness ==
    /\ FlashPhaseReturned
    /\ Count("flash_ok") = 1
    /\ error_reason = "Timeout waiting for device"
    /\ ret = "1"

\* ----------------------------------------------------------------------- C38
\* C38: when the print-status snapshot of cmd_flash or cmd_flash_all shows
\* printing or paused, the command returns 1 there: no service stop and no
\* transfer tool is issued in that run.
ActivePrintSeen == Count("printing") + Count("paused") > 0

C38_ActivePrintBlocksFlash ==
    ActivePrintSeen =>
        /\ cmd \in { "flash", "flash_all" }
        /\ pc = "done"
        /\ ret = "1"
        /\ raised = "none"
        /\ Len(events) = 1
        /\ Count("stop") = 0
        /\ Count("tool_begin") = 0 /\ Count("tool_oserror") = 0
        /\ fd_attempts = << >> /\ fd_tools = << >>

\* cmd_flash_all found the print paused after its builds
C38_Witness ==
    /\ cmd = "flash_all"
    /\ events = << "paused" >>
    /\ ret = "1"

\* ----------------------------------------------------------------------- C39
\* C39: after a stop command that exited non-zero or timed out, no start
\* command is issued, to the end of the run; a start is issued only when the
\* stop of the guard succeeded.
C39_NoStartAfterFailedStop ==
    /\ stop_outcome \in {"nonzero", "timeout"} =>
          /\ Count("stop") = 1
          /\ Count("start") = 0
          /\ start_outcome = "none"
          /\ pc \in {"propagate", "done"}
    /\ Count("start") > 0 =>
          /\ stop_outcome = "ok"
          /\ Count("start") = 1

\* the stop of cmd_flash_all timed out and the command has ended: the
\* service was not started again
C39_Witness ==
    /\ cmd = "flash_all"
    /\ stop_outcome = "timeout"
    /\ pc = "done"
    /\ Count("stop") = 1
    /\ Count("start") = 0

====
